---- MODULE Spec2Model ----
(***************************************************************************)
(* A model of the example entry points of diy-tools-mcp: the content       *)
(* extractor of examples/python/web_scraper.py (SimpleHTMLParser, main and  *)
(* its sub-extractors) and the entry points of math_utils.py,              *)
(* simple_math.py, text_analyzer.py and data_processor.py.                 *)
(*                                                                         *)
(* Text is a sequence of atoms.  An atom is one character ("a", " ", ".")  *)
(* in running text; a URL is a sequence of lexemes ("http:", "//",         *)
(* "x.com", "/foo", "#", "top").  The markup handed to main is the         *)
(* sequence of tokens html.parser cuts it into: start tags with their      *)
(* attributes, character data, end tags.                                   *)
(***************************************************************************)
EXTENDS Integers, Sequences, FiniteSets, TLC

VARIABLES
    content,        \* main's content argument: the tokens fed to the parser so far
    links,          \* SimpleHTMLParser.links
    images,         \* SimpleHTMLParser.images
    headings,       \* SimpleHTMLParser.headings: level -> list of texts
    paragraphs,     \* SimpleHTMLParser.paragraphs
    meta_tags,      \* SimpleHTMLParser.meta_tags
    current_tag,    \* SimpleHTMLParser.current_tag ("None" for None)
    current_data,   \* SimpleHTMLParser.current_data
    pc,             \* where the call is: "feed", "idle", "done"
    call,           \* the entry point called and its arguments
    outcome,        \* "pending", "returned" or "raised" (the fault reaches the caller)
    result          \* the mapping returned, or the exception raised

vars == <<content, links, images, headings, paragraphs, meta_tags,
          current_tag, current_data, pc, call, outcome, result>>

parserVars == <<links, images, headings, paragraphs, meta_tags,
                current_tag, current_data>>

callVars == <<pc, call, outcome, result>>

-----------------------------------------------------------------------------
(* Bounds of the model *)

\* tokens fed in the specification of the tag scanner
MaxEvents == 5

-----------------------------------------------------------------------------
(* Python built-ins on text and mappings *)

Whitespace == {" ", "\n"}

RECURSIVE LStrip(_)
LStrip(s) ==
    IF s = <<>> THEN s
    ELSE IF Head(s) \in Whitespace THEN LStrip(Tail(s)) ELSE s

RECURSIVE RStrip(_)
RStrip(s) ==
    IF s = <<>> THEN s
    ELSE IF s[Len(s)] \in Whitespace THEN RStrip(SubSeq(s, 1, Len(s) - 1)) ELSE s

\* str.strip()
Strip(s) == RStrip(LStrip(s))

\* dict.get(key, default)
Get(d, key, default) == IF key \in DOMAIN d THEN d[key] ELSE default

\* seq[:n] for n >= 0
Take(s, n) == SubSeq(s, 1, IF n < Len(s) THEN n ELSE Len(s))

Last(s) == s[Len(s)]

NoAttrs == [k \in {} |-> <<>>]

\* before the call, and before it returns
NoCall == [entry |-> "none"]
NoResult == [pending |-> TRUE]

-----------------------------------------------------------------------------
(* The tokens of the markup *)

StartTok(tag, attrs) == [kind |-> "start", tag |-> tag, attrs |-> attrs, data |-> <<>>]
DataTok(d) == [kind |-> "data", tag |-> "", attrs |-> NoAttrs, data |-> d]
EndTok(tag) == [kind |-> "end", tag |-> tag, attrs |-> NoAttrs, data |-> <<>>]

HeadingLevels == <<"h1", "h2", "h3", "h4", "h5", "h6">>

HeadingTags == {HeadingLevels[i] : i \in 1..Len(HeadingLevels)}

-----------------------------------------------------------------------------
(* SimpleHTMLParser *)

ParserInit ==
    /\ links = <<>>
    /\ images = <<>>
    /\ headings = [t \in HeadingTags |-> <<>>]
    /\ paragraphs = <<>>
    /\ meta_tags = <<>>
    /\ current_tag = "None"
    /\ current_data = <<>>

HandleStartTagNoReset(tag, attrs) ==
    IF tag = "a" /\ "href" \in DOMAIN attrs THEN
        /\ links' = Append(links, [href |-> attrs["href"],
                                   title |-> Get(attrs, "title", <<>>),
                                   rel |-> Get(attrs, "rel", <<>>)])
        /\ UNCHANGED <<images, headings, paragraphs, meta_tags, current_tag, current_data>>
    ELSE IF tag = "img" /\ "src" \in DOMAIN attrs THEN
        /\ images' = Append(images, [src |-> attrs["src"],
                                     alt |-> Get(attrs, "alt", <<>>),
                                     title |-> Get(attrs, "title", <<>>)])
        /\ UNCHANGED <<links, headings, paragraphs, meta_tags, current_tag, current_data>>
    ELSE IF tag = "meta" THEN
        /\ meta_tags' = Append(meta_tags, attrs)
        /\ UNCHANGED <<links, images, headings, paragraphs, current_tag, current_data>>
    ELSE IF tag \in HeadingTags \/ tag = "p" THEN
        /\ current_tag' = tag
        /\ UNCHANGED <<links, images, headings, paragraphs, meta_tags, current_data>>
    ELSE UNCHANGED parserVars

HandleStartTag(tag, attrs) ==
    IF tag = "a" /\ "href" \in DOMAIN attrs THEN
        /\ links' = Append(links, [href |-> attrs["href"],
                                   title |-> Get(attrs, "title", <<>>),
                                   rel |-> Get(attrs, "rel", <<>>)])
        /\ UNCHANGED <<images, headings, paragraphs, meta_tags, current_tag, current_data>>
    ELSE IF tag = "img" /\ "src" \in DOMAIN attrs THEN
        /\ images' = Append(images, [src |-> attrs["src"],
                                     alt |-> Get(attrs, "alt", <<>>),
                                     title |-> Get(attrs, "title", <<>>)])
        /\ UNCHANGED <<links, headings, paragraphs, meta_tags, current_tag, current_data>>
    ELSE IF tag = "meta" THEN
        /\ meta_tags' = Append(meta_tags, attrs)
        /\ UNCHANGED <<links, images, headings, paragraphs, current_tag, current_data>>
    ELSE IF tag \in HeadingTags THEN
        /\ current_tag' = tag
        /\ current_data' = <<>>
        /\ UNCHANGED <<links, images, headings, paragraphs, meta_tags>>
    ELSE IF tag = "p" THEN
        /\ current_tag' = "p"
        /\ current_data' = <<>>
        /\ UNCHANGED <<links, images, headings, paragraphs, meta_tags>>
    ELSE UNCHANGED parserVars

HandleData(data) ==
    /\ current_data' = IF current_tag # "None"
                         THEN current_data \o Strip(data)
                         ELSE current_data
    /\ UNCHANGED <<links, images, headings, paragraphs, meta_tags, current_tag>>

\* handle_endtag, were it to reset on the matching tag only
HandleEndTagMatchingOnly(tag) ==
    IF current_tag = tag THEN
        /\ IF current_data # <<>> THEN
               IF tag \in HeadingTags THEN
                   /\ headings' = [headings EXCEPT ![tag] = Append(@, current_data)]
                   /\ UNCHANGED paragraphs
               ELSE IF tag = "p" THEN
                   /\ paragraphs' = Append(paragraphs, current_data)
                   /\ UNCHANGED headings
               ELSE UNCHANGED <<headings, paragraphs>>
           ELSE UNCHANGED <<headings, paragraphs>>
        /\ current_tag' = "None"
        /\ current_data' = <<>>
        /\ UNCHANGED <<links, images, meta_tags>>
    ELSE UNCHANGED parserVars

HandleEndTag(tag) ==
    /\ IF current_tag = tag /\ current_data # <<>> THEN
           IF tag \in HeadingTags THEN
               /\ headings' = [headings EXCEPT ![tag] = Append(@, current_data)]
               /\ UNCHANGED paragraphs
           ELSE IF tag = "p" THEN
               /\ paragraphs' = Append(paragraphs, current_data)
               /\ UNCHANGED headings
           ELSE UNCHANGED <<headings, paragraphs>>
       ELSE UNCHANGED <<headings, paragraphs>>
    /\ current_tag' = "None"
    /\ current_data' = <<>>
    /\ UNCHANGED <<links, images, meta_tags>>

\* HTMLParser.feed calling the handler of one token of the content
Handle(tok) ==
    /\ content' = Append(content, tok)
    /\ CASE tok.kind = "start" -> HandleStartTag(tok.tag, tok.attrs)
         [] tok.kind = "data" -> HandleData(tok.data)
         [] tok.kind = "end" -> HandleEndTag(tok.tag)

-----------------------------------------------------------------------------
(* urllib.parse on URLs written as sequences of lexemes *)

Schemes == {"http:", "https:", "mailto:"}

\* urllib.parse.uses_relative and uses_netloc, among the schemes above ("" is in both)
UsesRelative == {"", "http:", "https:"}
UsesNetloc == {"", "http:", "https:"}

\* the lexemes that open a path or a fragment, and so end the network location
IsPathLexeme(x) == x \in {"/", "/foo", "/bar", "#", "?"}

StartsWith(s, prefix) ==
    Len(s) >= Len(prefix) /\ SubSeq(s, 1, Len(prefix)) = prefix

\* the first position of atom x in s (0: none)
IndexOf(s, x) ==
    LET S == {i \in 1..Len(s) : s[i] = x}
    IN IF S = {} THEN 0 ELSE CHOOSE i \in S : \A j \in S : i <= j

\* urlparse(url).scheme, with its colon ("" for none)
SchemeOf(url) == IF url # <<>> /\ Head(url) \in Schemes THEN Head(url) ELSE ""

\* what follows the scheme
AfterScheme(url) == IF url # <<>> /\ Head(url) \in Schemes THEN Tail(url) ELSE url

\* rest opens with "//" and a host
HasHost(rest) == Len(rest) >= 2 /\ rest[1] = "//" /\ ~IsPathLexeme(rest[2])

NetlocOf(rest) == IF HasHost(rest) THEN rest[2] ELSE ""

\* what follows "//" and the host
AfterNetloc(rest) ==
    IF HasHost(rest) THEN SubSeq(rest, 3, Len(rest))
    ELSE IF rest # <<>> /\ Head(rest) = "//" THEN Tail(rest)
    ELSE rest

\* the path and the fragment: rest cut at position f of its first "#"
PathOf(rest, f) == IF f = 0 THEN rest ELSE SubSeq(rest, 1, f - 1)
FragmentOf(rest, f) == IF f = 0 THEN <<>> ELSE SubSeq(rest, f + 1, Len(rest))

UrlParts(scheme, netloc, rest) ==
    [scheme |-> scheme, netloc |-> netloc,
     path |-> PathOf(rest, IndexOf(rest, "#")),
     fragment |-> FragmentOf(rest, IndexOf(rest, "#"))]

\* urlparse(url): scheme, netloc, path, fragment
UrlParse(url) ==
    UrlParts(SchemeOf(url), NetlocOf(AfterScheme(url)), AfterNetloc(AfterScheme(url)))

\* urlunparse(parts)
UrlUnparse(parts) ==
    (IF parts.scheme # "" THEN <<parts.scheme>> ELSE <<>>)
    \o (IF parts.netloc # "" THEN <<"//", parts.netloc>>
        ELSE IF parts.scheme # "" /\ parts.scheme \in UsesNetloc THEN <<"//">>
        ELSE <<>>)
    \o parts.path
    \o (IF parts.fragment # <<>> THEN <<"#">> \o parts.fragment ELSE <<>>)

\* urljoin once base and url are parsed (b, u) and url has its scheme or base's
JoinParsed(url, b, u, scheme) ==
    IF scheme # b.scheme \/ scheme \notin UsesRelative THEN url
    ELSE IF scheme \in UsesNetloc /\ u.netloc # "" THEN
        UrlUnparse([u EXCEPT !.scheme = scheme])
    ELSE UrlUnparse([scheme |-> scheme,
                     netloc |-> IF scheme \in UsesNetloc THEN b.netloc ELSE u.netloc,
                     path |-> IF u.path = <<>> THEN b.path ELSE u.path,
                     fragment |-> u.fragment])

\* urljoin(base, url), for urls whose path is empty or absolute
UrlJoin(base, url) ==
    IF base = <<>> THEN url
    ELSE IF url = <<>> THEN base
    ELSE JoinParsed(url, UrlParse(base), UrlParse(url),
                    IF SchemeOf(url) = "" THEN SchemeOf(base) ELSE SchemeOf(url))

-----------------------------------------------------------------------------
(* extract_links *)

InternalCap == 20
ExternalCap == 20
AnchorCap == 10

\* link.get("absolute_href", link["href"])
HrefOf(link) == Get(link, "absolute_href", link.href)

\* parser.links after the loop that resolves each href against base_url
ResolveLinks(ls, base_url) ==
    IF base_url # <<>> THEN
        [i \in DOMAIN ls |-> [href |-> ls[i].href, title |-> ls[i].title, rel |-> ls[i].rel,
                              absolute_href |-> UrlJoin(base_url, ls[i].href)]]
    ELSE ls

\* the links kept: with base_url and filter_external, those on base_url's host
KeepLinks(resolved, base_url, filter_external) ==
    IF base_url # <<>> /\ filter_external THEN
        SelectSeq(resolved,
                  LAMBDA l : UrlParse(HrefOf(l)).netloc = UrlParse(base_url).netloc)
    ELSE resolved

FilteredLinks(ls, options) ==
    KeepLinks(ResolveLinks(ls, Get(options, "base_url", <<>>)),
              Get(options, "base_url", <<>>),
              Get(options, "filter_external", FALSE))

\* the category the loop puts a link whose resolved href is href in
CategoryOf(href, base_url) ==
    IF StartsWith(href, <<"#">>) THEN "anchor"
    ELSE IF StartsWith(href, <<"http:", "//">>) \/ StartsWith(href, <<"https:", "//">>) THEN
        IF base_url # <<>> /\ UrlParse(href).netloc = UrlParse(base_url).netloc
            THEN "internal"
            ELSE "external"
    ELSE "internal"

LinkCategory(link, base_url) == CategoryOf(HrefOf(link), base_url)

CategoryList(ls, base_url, cat) ==
    SelectSeq(ls, LAMBDA l : LinkCategory(l, base_url) = cat)

LinksResultCountCapped(total, internal, external, anchors) ==
    [success |-> TRUE,
     total_links |-> total,
     internal_links |-> Take(internal, InternalCap),
     external_links |-> Take(external, ExternalCap),
     anchor_links |-> Take(anchors, AnchorCap),
     stats |-> [internal_count |-> Len(Take(internal, InternalCap)),
                external_count |-> Len(Take(external, ExternalCap)),
                anchor_count |-> Len(Take(anchors, AnchorCap))]]

\* the mapping extract_links returns
LinksResult(total, internal, external, anchors) ==
    [success |-> TRUE,
     total_links |-> total,
     internal_links |-> Take(internal, InternalCap),
     external_links |-> Take(external, ExternalCap),
     anchor_links |-> Take(anchors, AnchorCap),
     stats |-> [internal_count |-> Len(internal),
                external_count |-> Len(external),
                anchor_count |-> Len(anchors)]]

CategorizeLinks(kept, base_url) ==
    LinksResult(Len(kept),
                CategoryList(kept, base_url, "internal"),
                CategoryList(kept, base_url, "external"),
                CategoryList(kept, base_url, "anchor"))

ExtractLinks(ls, options) ==
    CategorizeLinks(FilteredLinks(ls, options), Get(options, "base_url", <<>>))

-----------------------------------------------------------------------------
(* extract_text *)

DefaultMaxLength == 5000
HeadingsSummaryCap == 5

Ellipsis == <<".", ".", ".">>

SentenceEnds == {".", "!", "?"}

\* Python values whose type decides what an operation does
PyInt(n) == [type |-> "int", val |-> n]
PyNone == [type |-> "NoneType", val |-> 0]

\* sep.join(parts)
RECURSIVE Join(_, _)
Join(parts, sep) ==
    IF parts = <<>> THEN <<>>
    ELSE IF Len(parts) = 1 THEN parts[1]
    ELSE parts[1] \o sep \o Join(Tail(parts), sep)

\* re.sub(r'\s+', ' ', s)
RECURSIVE CollapseWs(_)
CollapseWs(s) ==
    IF s = <<>> THEN <<>>
    ELSE IF Head(s) \in Whitespace THEN <<" ">> \o CollapseWs(LStrip(s))
    ELSE <<Head(s)>> \o CollapseWs(Tail(s))

\* the length of the longest prefix of s with no atom of set stop
RECURSIVE PrefixLen(_, _)
PrefixLen(s, stop) ==
    IF s = <<>> \/ Head(s) \in stop THEN 0 ELSE 1 + PrefixLen(Tail(s), stop)

\* s without its leading atoms of set skip
RECURSIVE DropWhile(_, _)
DropWhile(s, skip) ==
    IF s = <<>> \/ Head(s) \notin skip THEN s ELSE DropWhile(Tail(s), skip)

\* str.split()
RECURSIVE Split(_)
Split(s) ==
    LET t == LStrip(s)
        n == PrefixLen(t, Whitespace)
    IN IF t = <<>> THEN <<>>
       ELSE <<SubSeq(t, 1, n)>> \o Split(SubSeq(t, n + 1, Len(t)))

\* re.split(r'[.!?]+', s)
RECURSIVE SplitSentences(_)
SplitSentences(s) ==
    LET n == PrefixLen(s, SentenceEnds)
    IN IF n = Len(s) THEN <<s>>
       ELSE <<SubSeq(s, 1, n)>>
                \o SplitSentences(DropWhile(SubSeq(s, n + 1, Len(s)), SentenceEnds))

RECURSIVE SumLen(_)
SumLen(ws) == IF ws = <<>> THEN 0 ELSE Len(Head(ws)) + SumLen(Tail(ws))

\* a / b of two ints, kept as the fraction; the int 0 is 0 / 1
Quotient(a, b) == [num |-> a, den |-> b]
Zero == Quotient(0, 1)

\* the heading texts level by level, h1 first (empty texts skipped)
RECURSIVE HeadingsByLevel(_, _)
HeadingsByLevel(hs, i) ==
    IF i > Len(HeadingLevels) THEN <<>>
    ELSE SelectSeq(hs[HeadingLevels[i]], LAMBDA h : h # <<>>) \o HeadingsByLevel(hs, i + 1)

\* the joined and cleaned text, before truncation
FullText(hs, ps, options) ==
    LET include_headings == Get(options, "include_headings", TRUE)
        text_parts == (IF include_headings THEN HeadingsByLevel(hs, 1) ELSE <<>>) \o ps
    IN Strip(CollapseWs(Join(text_parts, <<" ">>)))

TextStats(full_text) ==
    LET words == Split(full_text)
        sentences == SplitSentences(full_text)
    IN [character_count |-> Len(full_text),
        word_count |-> Len(words),
        sentence_count |-> Len(SelectSeq(sentences, LAMBDA x : Strip(x) # <<>>)),
        average_word_length |-> IF words # <<>> THEN Quotient(SumLen(words), Len(words))
                                                ELSE Zero]

HeadingsSummary(hs) ==
    [level \in {t \in HeadingTags : hs[t] # <<>>} |-> Take(hs[level], HeadingsSummaryCap)]

ExtractTextStatsFirst(hs, ps, options) ==
    LET max_length == Get(options, "max_length", PyInt(DefaultMaxLength))
        joined == FullText(hs, ps, options)
    IN IF max_length.type # "int" THEN [raised |-> "TypeError"]
       ELSE [success |-> TRUE,
             text |-> IF Len(joined) > max_length.val
                        THEN Take(joined, max_length.val) \o Ellipsis ELSE joined,
             stats |-> TextStats(joined),
             headings_summary |-> HeadingsSummary(hs)]

\* [raised |-> e]: the call raises e instead of returning
ExtractText(hs, ps, options) ==
    LET max_length == Get(options, "max_length", PyInt(DefaultMaxLength))
        joined == FullText(hs, ps, options)
    IN IF max_length.type # "int" THEN [raised |-> "TypeError"]
       ELSE LET full_text == IF Len(joined) > max_length.val
                               THEN Take(joined, max_length.val) \o Ellipsis
                               ELSE joined
            IN [success |-> TRUE,
                text |-> full_text,
                stats |-> TextStats(full_text),
                headings_summary |-> HeadingsSummary(hs)]

-----------------------------------------------------------------------------
(* The raw text of the content, which the regular expressions run over *)

\* the attribute names of the model, in the order a tag is written out
AttrOrder == <<"href", "src", "alt", "title", "rel", "type", "name", "property",
               "content", "charset", "itemscope">>

RECURSIVE RawAttrs(_, _)
RawAttrs(attrs, i) ==
    IF i > Len(AttrOrder) THEN <<>>
    ELSE (IF AttrOrder[i] \in DOMAIN attrs
            THEN <<" ", AttrOrder[i], "=", "\"">> \o attrs[AttrOrder[i]] \o <<"\"">>
            ELSE <<>>)
         \o RawAttrs(attrs, i + 1)

RawTok(tok) ==
    CASE tok.kind = "start" -> <<"<", tok.tag>> \o RawAttrs(tok.attrs, 1) \o <<">">>
      [] tok.kind = "data" -> tok.data
      [] tok.kind = "end" -> <<"</", tok.tag, ">">>

\* the raw text of tokens i..j of c
RECURSIVE Raw(_, _, _)
Raw(c, i, j) ==
    IF i > j THEN <<>>
    ELSE IF i = j THEN RawTok(c[i])
    ELSE Raw(c, i, (i + j) \div 2) \o Raw(c, ((i + j) \div 2) + 1, j)

\* the first position k >= i of c that holds the end tag of tag (0: none)
NextEnd(c, i, tag) ==
    LET S == {k \in i..Len(c) : c[k].kind = "end" /\ c[k].tag = tag}
    IN IF S = {} THEN 0 ELSE CHOOSE k \in S : \A m \in S : k <= m

-----------------------------------------------------------------------------
(* extract_structured *)

JsonLdCap == 5
OutlineCap == 20

JsonLdType == <<"application/ld+json">>

\* the texts json.loads accepts, among the texts of the model
IsJson(text) == text \in {<<"{", "}">>, <<"[", "]">>}

\* token i of c opens a JSON-LD script block that is closed further on
OpensJsonLd(c, i) ==
    /\ c[i].kind = "start" /\ c[i].tag = "script"
    /\ Get(c[i].attrs, "type", <<>>) = JsonLdType
    /\ NextEnd(c, i + 1, "script") # 0

\* a match of the pattern starts at token i: findall resumes its search after
\* the end of a match, so an opening inside an earlier block starts none
IsJsonLdMatch(c, i) ==
    /\ OpensJsonLd(c, i)
    /\ \A j \in 1..(i - 1) : OpensJsonLd(c, j) => NextEnd(c, j + 1, "script") < i

Positions(c) == [k \in DOMAIN c |-> k]

MatchStarts(c) == SelectSeq(Positions(c), LAMBDA i : IsJsonLdMatch(c, i))

BodyAt(c, i) == Raw(c, i + 1, NextEnd(c, i + 1, "script") - 1)

BodiesAt(c, starts) == [n \in DOMAIN starts |-> BodyAt(c, starts[n])]

\* re.findall(json_ld_pattern, content): the bodies of the JSON-LD script blocks
JsonLdMatches(c) == BodiesAt(c, MatchStarts(c))

\* json.loads(text) for a text it accepts
JsonLoads(text) ==
    IF text = <<"{", "}">> THEN [type |-> "dict", items |-> <<>>]
    ELSE [type |-> "list", items |-> <<>>]

StripAll(texts) == [k \in DOMAIN texts |-> Strip(texts[k])]

LoadAll(texts) == [k \in DOMAIN texts |-> JsonLoads(texts[k])]

\* the length of the longest prefix of texts that json.loads accepts throughout
ParseableRun(texts) ==
    Cardinality({n \in DOMAIN texts : \A k \in 1..n : IsJson(texts[k])})

\* the loop, were it to end at the first block that json.loads rejects
ParsedBlocksUntilError(c) ==
    LoadAll(SubSeq(StripAll(JsonLdMatches(c)), 1, ParseableRun(StripAll(JsonLdMatches(c)))))

\* the blocks json.loads parses; one that raises JSONDecodeError is skipped
ParsedBlocks(c) == LoadAll(SelectSeq(StripAll(JsonLdMatches(c)), IsJson))

\* content.count(word)
CountAtom(s, x) == Cardinality({i \in DOMAIN s : s[i] = x})

\* the outline: the headings level by level, h1 first
RECURSIVE Outline(_, _)
Outline(hs, i) ==
    IF i > Len(HeadingLevels) THEN <<>>
    ELSE LET level == HeadingLevels[i]
             kept == SelectSeq(hs[level], LAMBDA h : h # <<>>)
         IN [k \in DOMAIN kept |-> [level |-> level, text |-> kept[k]]]
                \o Outline(hs, i + 1)

ExtractStructured(c, hs, imgs) ==
    [success |-> TRUE,
     json_ld |-> Take(ParsedBlocks(c), JsonLdCap),
     has_json_ld |-> Len(ParsedBlocks(c)) > 0,
     microdata_indicators |-> CountAtom(Raw(c, 1, Len(c)), "itemscope"),
     document_outline |-> Take(Outline(hs, 1), OutlineCap),
     images_with_alt |-> Len(SelectSeq(imgs, LAMBDA img : img.alt # <<>>)),
     total_images |-> Len(imgs)]

-----------------------------------------------------------------------------
(* extract_metadata *)

\* str.lower() on the atoms of the model
LowerAtom(a) ==
    CASE a = "Description" -> "description"
      [] a = "OG:" -> "og:"
      [] OTHER -> a

Lower(text) == [i \in DOMAIN text |-> LowerAtom(text[i])]

\* d[key] = value on a dict
Put(d, key, value) == [x \in DOMAIN d \cup {key} |-> IF x = key THEN value ELSE d[x]]

EmptyDict == [k \in {} |-> <<>>]

\* re.search(r'<title>(.*?)</title>', content): the stripped inner text ("" without a match)
TitleOf(c) ==
    LET S == {i \in 1..Len(c) : c[i] = StartTok("title", NoAttrs)
                                  /\ NextEnd(c, i + 1, "title") # 0}
    IN IF S = {} THEN <<>>
       ELSE LET i == CHOOSE k \in S : \A m \in S : k <= m
            IN Strip(Raw(c, i + 1, NextEnd(c, i + 1, "title") - 1))

MetadataInit(c) ==
    [title |-> TitleOf(c), description |-> <<>>, keywords |-> <<>>, author |-> <<>>,
     viewport |-> <<>>, charset |-> <<>>, og_tags |-> EmptyDict,
     twitter_tags |-> EmptyDict, other |-> <<>>]

\* one turn of the loop over the meta tags
ClassifyMeta(md, tag) ==
    LET name == Lower(Get(tag, "name", <<>>))
        property_name == Lower(Get(tag, "property", <<>>))
        content_val == Get(tag, "content", <<>>)
    IN IF name = <<"description">> THEN [md EXCEPT !.description = content_val]
       ELSE IF name = <<"keywords">> THEN [md EXCEPT !.keywords = content_val]
       ELSE IF name = <<"author">> THEN [md EXCEPT !.author = content_val]
       ELSE IF name = <<"viewport">> THEN [md EXCEPT !.viewport = content_val]
       ELSE IF Get(tag, "charset", <<>>) # <<>> THEN [md EXCEPT !.charset = tag["charset"]]
       ELSE IF StartsWith(property_name, <<"og:">>) THEN
           [md EXCEPT !.og_tags = Put(@, property_name, content_val)]
       ELSE IF StartsWith(property_name, <<"twitter:">>) THEN
           [md EXCEPT !.twitter_tags = Put(@, property_name, content_val)]
       ELSE [md EXCEPT !.other = Append(@, tag)]

RECURSIVE ClassifyAll(_, _)
ClassifyAll(md, tags) ==
    IF tags = <<>> THEN md ELSE ClassifyAll(ClassifyMeta(md, Head(tags)), Tail(tags))

ExtractMetadata(c, tags) ==
    LET metadata == ClassifyAll(MetadataInit(c), tags)
    IN [success |-> TRUE,
        metadata |-> metadata,
        total_meta_tags |-> Len(tags),
        has_og_tags |-> DOMAIN metadata.og_tags # {},
        has_twitter_tags |-> DOMAIN metadata.twitter_tags # {}]

-----------------------------------------------------------------------------
(* extract_emails, extract_phone_numbers, extract_urls *)

EmailCap == 20
PhoneCap == 20
UrlCap == 30
DomainCap == 20
FrequencyCap == 10

\* addresses enough to outgrow the cap
NumberedEmails ==
    <<"u01@x.com", "u02@x.com", "u03@x.com", "u04@x.com", "u05@x.com", "u06@x.com",
      "u07@x.com", "u08@x.com", "u09@x.com", "u10@x.com", "u11@x.com", "u12@x.com",
      "u13@x.com", "u14@x.com", "u15@x.com", "u16@x.com", "u17@x.com", "u18@x.com",
      "u19@x.com", "u20@x.com", "u21@x.com", "u22@x.com", "u23@x.com">>

\* the lexemes the patterns match as a whole
EmailAtoms ==
    {"a@b.com", "c@d.org"} \cup {NumberedEmails[i] : i \in DOMAIN NumberedEmails}
UsPhoneAtoms == {"555-123-4567"}
IntlPhoneAtoms == {"+44 20 7946 0958"}
HostAtoms == {"x.com", "y.com"}

\* the elements of s, each once
Range(s) == {s[i] : i \in DOMAIN s}

\* xs without the later copies of an element
RECURSIVE Dedupe(_)
Dedupe(xs) ==
    IF xs = <<>> THEN <<>>
    ELSE LET front == Dedupe(SubSeq(xs, 1, Len(xs) - 1))
         IN IF Last(xs) \in Range(front) THEN front ELSE Append(front, Last(xs))

Reverse(xs) == [i \in DOMAIN xs |-> xs[Len(xs) + 1 - i]]

\* the orders in which a set may yield its elements, as far as the model tells them apart
HashOrders == {"forward", "backward"}

\* list(set(xs)): the distinct elements of xs, in an order the hashing decides
SetToList(xs, hashOrder) ==
    IF hashOrder = "forward" THEN Dedupe(xs) ELSE Reverse(Dedupe(xs))

\* re.findall(email_pattern, content)
EmailFindall(raw) ==
    LET found == SelectSeq(raw, LAMBDA x : x \in EmailAtoms)
    IN [i \in DOMAIN found |-> <<found[i]>>]

\* the extractor, were it to keep every match
ExtractEmailsKeepAll(raw, hashOrder) ==
    [success |-> TRUE,
     emails |-> Take(EmailFindall(raw), EmailCap),
     total_found |-> Len(EmailFindall(raw))]

ExtractEmails(raw, hashOrder) ==
    LET emails == SetToList(EmailFindall(raw), hashOrder)
    IN [success |-> TRUE,
        emails |-> Take(emails, EmailCap),
        total_found |-> Len(emails)]

\* the whitespace that directly precedes position i of raw
RECURSIVE WsBefore(_, _)
WsBefore(raw, i) ==
    IF i > 1 /\ raw[i - 1] \in Whitespace THEN WsBefore(raw, i - 1) \o <<raw[i - 1]>> ELSE <<>>

\* re.findall(patterns[k], content): the US pattern takes the whitespace before a number
RECURSIVE PhoneFindall(_, _, _)
PhoneFindall(raw, k, i) ==
    IF i > Len(raw) THEN <<>>
    ELSE (CASE k = 1 /\ raw[i] \in UsPhoneAtoms -> << WsBefore(raw, i) \o <<raw[i]>> >>
            [] k = 2 /\ raw[i] \in UsPhoneAtoms \cup IntlPhoneAtoms -> << <<raw[i]>> >>
            [] k = 3 /\ raw[i] \in UsPhoneAtoms -> << <<raw[i]>> >>
            [] OTHER -> <<>>)
         \o PhoneFindall(raw, k, i + 1)

ExtractPhoneNumbers(raw, hashOrder) ==
    LET found == PhoneFindall(raw, 1, 1) \o PhoneFindall(raw, 2, 1) \o PhoneFindall(raw, 3, 1)
        phone_numbers == SetToList([i \in DOMAIN found |-> Strip(found[i])], hashOrder)
    IN [success |-> TRUE,
        phone_numbers |-> Take(phone_numbers, PhoneCap),
        total_found |-> Len(phone_numbers)]

\* re.findall(url_pattern, content): scheme, "//", host and, when a path follows,
\* everything up to the next whitespace
RECURSIVE UrlFindall(_, _)
UrlFindall(raw, i) ==
    IF i > Len(raw) THEN <<>>
    ELSE IF raw[i] \in {"http:", "https:"} /\ i + 2 <= Len(raw)
             /\ raw[i + 1] = "//" /\ raw[i + 2] \in HostAtoms THEN
        LET hasPath == i + 3 <= Len(raw) /\ raw[i + 3] \in {"/", "/foo", "/bar"}
            n == IF hasPath THEN PrefixLen(SubSeq(raw, i + 3, Len(raw)), Whitespace) ELSE 0
        IN <<SubSeq(raw, i, i + 2 + n)>> \o UrlFindall(raw, i + 3 + n)
    ELSE UrlFindall(raw, i + 1)

\* domains[domain] = domains.get(domain, 0) + 1 on the dict kept as its list of items
CountDomain(items, domain) ==
    IF \E k \in DOMAIN items : items[k].domain = domain THEN
        [k \in DOMAIN items |-> IF items[k].domain = domain
                                  THEN [items[k] EXCEPT !.count = @ + 1] ELSE items[k]]
    ELSE Append(items, [domain |-> domain, count |-> 1])

RECURSIVE CountDomains(_, _)
CountDomains(items, urls) ==
    IF urls = <<>> THEN items
    ELSE LET domain == UrlParse(Head(urls)).netloc
         IN CountDomains(IF domain # "" THEN CountDomain(items, domain) ELSE items, Tail(urls))

\* sorted(items, key=count, reverse=True): stable, larger counts first
RECURSIVE SortByCount(_)
SortByCount(items) ==
    IF items = <<>> THEN <<>>
    ELSE LET rest == SortByCount(Tail(items))
             n == Len(SelectSeq(rest, LAMBDA x : x.count > Head(items).count))
         IN SubSeq(rest, 1, n) \o <<Head(items)>> \o SubSeq(rest, n + 1, Len(rest))

ExtractUrls(raw, hashOrder) ==
    LET urls == SetToList(UrlFindall(raw, 1), hashOrder)
        domains == CountDomains(<<>>, urls)
    IN [success |-> TRUE,
        urls |-> Take(urls, UrlCap),
        total_found |-> Len(urls),
        unique_domains |-> Take([k \in DOMAIN domains |-> domains[k].domain], DomainCap),
        domain_frequency |-> Take(SortByCount(domains), FrequencyCap)]

-----------------------------------------------------------------------------
(* main of web_scraper.py *)

ParagraphCap == 10

AvailableTypes == <<"all", "links", "text", "metadata", "structured",
                    "emails", "phone_numbers", "urls">>

RECURSIVE TotalHeadings(_, _)
TotalHeadings(hs, i) ==
    IF i > Len(HeadingLevels) THEN 0
    ELSE Len(hs[HeadingLevels[i]]) + TotalHeadings(hs, i + 1)

ExtractAll ==
    [success |-> TRUE,
     links |-> links,
     images |-> images,
     headings |-> headings,
     paragraphs |-> Take(paragraphs, ParagraphCap),
     meta_tags |-> meta_tags,
     stats |-> [total_links |-> Len(links),
                total_images |-> Len(images),
                total_headings |-> TotalHeadings(headings, 1),
                total_paragraphs |-> Len(paragraphs)]]

UnknownType(extract_type) ==
    [error |-> <<"Unknown extraction type: ", extract_type>>,
     available_types |-> AvailableTypes]

\* the dispatch without its "urls" branch
ExtractNoUrls(extract_type, options, hashOrder) ==
    LET raw == Raw(content, 1, Len(content))
    IN CASE extract_type = "links" -> ExtractLinks(links, options)
         [] extract_type = "text" -> ExtractText(headings, paragraphs, options)
         [] extract_type = "metadata" -> ExtractMetadata(content, meta_tags)
         [] extract_type = "structured" -> ExtractStructured(content, headings, images)
         [] extract_type = "emails" -> ExtractEmails(raw, hashOrder)
         [] extract_type = "phone_numbers" -> ExtractPhoneNumbers(raw, hashOrder)
         [] extract_type = "all" -> ExtractAll
         [] OTHER -> UnknownType(extract_type)

\* what the try block returns, or [raised |-> e]
Extract(extract_type, options, hashOrder) ==
    LET raw == Raw(content, 1, Len(content))
    IN CASE extract_type = "links" -> ExtractLinks(links, options)
         [] extract_type = "text" -> ExtractText(headings, paragraphs, options)
         [] extract_type = "metadata" -> ExtractMetadata(content, meta_tags)
         [] extract_type = "structured" -> ExtractStructured(content, headings, images)
         [] extract_type = "emails" -> ExtractEmails(raw, hashOrder)
         [] extract_type = "phone_numbers" -> ExtractPhoneNumbers(raw, hashOrder)
         [] extract_type = "urls" -> ExtractUrls(raw, hashOrder)
         [] extract_type = "all" -> ExtractAll
         [] OTHER -> UnknownType(extract_type)

\* the mapping main returns: the except clause turns an exception into a mapping
Main(extract_type, options, hashOrder) ==
    LET r == Extract(extract_type, options, hashOrder)
    IN IF "raised" \in DOMAIN r
         THEN [error |-> r.raised, extract_type |-> extract_type]
         ELSE r

\* main, after parser.feed(content)
MainCall(extract_type, options, hashOrder) ==
    /\ pc = "feed"
    /\ pc' = "done"
    /\ call' = [entry |-> "web_scraper.main", extract_type |-> extract_type,
                options |-> options]
    /\ result' = Main(extract_type, options, hashOrder)
    /\ outcome' = "returned"
    /\ links' = IF extract_type = "links"
                  THEN ResolveLinks(links, Get(options, "base_url", <<>>))
                  ELSE links
    /\ UNCHANGED <<content, images, headings, paragraphs, meta_tags,
                   current_tag, current_data>>

-----------------------------------------------------------------------------
(* main on short documents, with every extraction type *)

\* tokens of the content in the specification of main
MaxDocTokens == 3

BaseUrl == <<"http:", "//", "x.com">>

DocTokens ==
    { StartTok("a", [href |-> <<"mailto:", "a@b.com">>]),
      StartTok("meta", [property |-> <<"og:", "title">>, content |-> <<"a">>]),
      StartTok("h1", NoAttrs),
      StartTok("p", NoAttrs),
      DataTok(<<"a", " ">>),
      DataTok(<<"c@d.org", " ", "555-123-4567", " ", "http:", "//", "y.com", "/foo">>),
      EndTok("h1"),
      EndTok("p") }

\* extract_type values: the documented ones and two others
DocTypes == Range(AvailableTypes) \cup {"bogus", "ALL"}

DocOptions == {EmptyDict, [max_length |-> PyNone], [max_length |-> PyInt(2)],
               [base_url |-> BaseUrl]}

Init ==
    /\ content = <<>>
    /\ ParserInit
    /\ pc = "feed"
    /\ call = NoCall
    /\ outcome = "pending"
    /\ result = NoResult

Feed ==
    /\ pc = "feed" /\ Len(content) < MaxDocTokens
    /\ \E tok \in DocTokens : Handle(tok)
    /\ UNCHANGED callVars

Dispatch ==
    \E extract_type \in DocTypes, options \in DocOptions, hashOrder \in HashOrders :
        MainCall(extract_type, options, hashOrder)

Next == Feed \/ Dispatch

Spec == Init /\ [][Next]_vars

-----------------------------------------------------------------------------
(* The tag scanner on arbitrary short token sequences *)

ScanTags == {"h1", "p", "b"}
ScanData == {<<"a", " ">>, <<" ">>}

ScanInit == Init

ScanStartTag ==
    /\ pc = "feed" /\ Len(content) < MaxEvents
    /\ \E tag \in ScanTags : Handle(StartTok(tag, NoAttrs))
    /\ UNCHANGED callVars

ScanDataTok ==
    /\ pc = "feed" /\ Len(content) < MaxEvents
    /\ \E d \in ScanData : Handle(DataTok(d))
    /\ UNCHANGED callVars

ScanEndTag ==
    /\ pc = "feed" /\ Len(content) < MaxEvents
    /\ \E tag \in ScanTags : Handle(EndTok(tag))
    /\ UNCHANGED callVars

ScanNext == ScanStartTag \/ ScanDataTok \/ ScanEndTag

SpecScan == ScanInit /\ [][ScanNext]_vars

-----------------------------------------------------------------------------
(* What the claims about the tag scanner speak of *)

Capturable == HeadingTags \cup {"p"}

IsCapStart(tok) == tok.kind = "start" /\ tok.tag \in Capturable

\* the list a capturable tag's text is appended to
ListOf(tag) == IF tag = "p" THEN paragraphs ELSE headings[tag]

\* the trimmed character data of tokens i..j of c, concatenated
RECURSIVE TrimmedBetween(_, _, _)
TrimmedBetween(c, i, j) ==
    IF i > j THEN <<>>
    ELSE (IF c[i].kind = "data" THEN Strip(c[i].data) ELSE <<>>)
             \o TrimmedBetween(c, i + 1, j)

\* the nesting depth after tokens i..j of c, starting from depth d; -1 once an end
\* tag closes what was not opened
RECURSIVE DepthAfter(_, _, _, _)
DepthAfter(c, i, j, d) ==
    IF d < 0 \/ i > j THEN d
    ELSE DepthAfter(c, i + 1, j,
                    CASE c[i].kind = "start" -> d + 1
                      [] c[i].kind = "end" -> d - 1
                      [] OTHER -> d)

\* tokens i..j of c are text and closed elements that are not capturable
InnerClosed(c, i, j) ==
    /\ \A k \in i..j : c[k].kind # "data" => c[k].tag \notin Capturable
    /\ DepthAfter(c, i, j, 0) = 0

\* the last capturable start tag of c (0: none)
LastCapStart(c) ==
    LET S == {k \in 1..Len(c) : IsCapStart(c[k])}
    IN IF S = {} THEN 0 ELSE CHOOSE k \in S : \A m \in S : m <= k

\* C1: when the closing tag of a heading or paragraph is reached, and the element
\* held only text and other closed elements, the trimmed text between its opening
\* and its closing tag is appended to that element's list.
C1_CaptureUntilMatchingClose ==
    LET n == Len(content)
    IN \A i \in 1..(n - 1) :
           ( /\ content[n].kind = "end"
             /\ content[n].tag \in Capturable
             /\ content[i].kind = "start"
             /\ content[i].tag = content[n].tag
             /\ InnerClosed(content, i + 1, n - 1)
             /\ TrimmedBetween(content, i + 1, n - 1) # <<>> )
           => /\ ListOf(content[n].tag) # <<>>
              /\ Last(ListOf(content[n].tag)) = TrimmedBetween(content, i + 1, n - 1)

\* the case of C1 that the code does serve: the element holds text only
C1_TextOnlyRecorded ==
    /\ Len(content) = 3
    /\ content[1] = StartTok("p", NoAttrs)
    /\ content[2].kind = "data"
    /\ content[3] = EndTok("p")
    /\ paragraphs = <<Strip(content[2].data)>>
    /\ paragraphs # << <<>> >>

C2Step ==
    LET n == Len(content')
        tok == content'[n]
        k == LastCapStart(content)
    IN content' # content =>
        /\ current_tag' \in Capturable \cup {"None"}
        /\ IsCapStart(tok) =>
               /\ current_tag' = tok.tag
               /\ current_data' = <<>>
               /\ headings' = headings
               /\ paragraphs' = paragraphs
        /\ \A t \in Capturable :
               ListOf(t)' # ListOf(t) =>
                   /\ tok.kind = "end" /\ tok.tag = t
                   /\ k > 0 /\ content[k].tag = t
                   /\ ListOf(t)' = Append(ListOf(t), TrimmedBetween(content, k + 1, n - 1))

\* C2: one capture context at a time; opening a capturable tag resets the
\* accumulated text and makes that tag the context, and whatever is appended to a
\* list is the text that followed the last capturable opening tag, appended to the
\* list of that tag: text of an enclosing unclosed tag is never appended or mixed in.
C2_SingleCaptureContext == [][C2Step]_vars

\* a heading opened inside an unclosed paragraph that already holds text is
\* recorded with its own text only, and the paragraph's text is recorded nowhere
C2_Witness ==
    /\ Len(content) = 5
    /\ content[1] = StartTok("p", NoAttrs)
    /\ content[2] = DataTok(<<"a", " ">>)
    /\ content[3] = StartTok("h1", NoAttrs)
    /\ content[4] = DataTok(<<"a", " ">>)
    /\ content[5] = EndTok("h1")
    /\ headings["h1"] = << <<"a">> >>
    /\ paragraphs = <<>>

-----------------------------------------------------------------------------
(* What the claims about main speak of *)

\* the eight documented extraction types
ValidTypes == {"all", "links", "text", "metadata", "structured",
               "emails", "phone_numbers", "urls"}

Returned == pc = "done" /\ call.entry = "web_scraper.main"

\* what the sub-extractor matching a documented type may return for the call made
\* (one mapping per order a set may yield its elements in)
Matching(extract_type) ==
    LET raw == Raw(content, 1, Len(content))
    IN CASE extract_type = "links" -> {ExtractLinks(links, call.options)}
         [] extract_type = "text" -> {ExtractText(headings, paragraphs, call.options)}
         [] extract_type = "metadata" -> {ExtractMetadata(content, meta_tags)}
         [] extract_type = "structured" -> {ExtractStructured(content, headings, images)}
         [] extract_type = "emails" -> {ExtractEmails(raw, o) : o \in HashOrders}
         [] extract_type = "phone_numbers" -> {ExtractPhoneNumbers(raw, o) : o \in HashOrders}
         [] extract_type = "urls" -> {ExtractUrls(raw, o) : o \in HashOrders}
         [] extract_type = "all" -> {ExtractAll}

\* the sub-extractor of the call made raised an exception
RaisedInside ==
    /\ call.extract_type \in ValidTypes
    /\ \E r \in Matching(call.extract_type) : "raised" \in DOMAIN r

\* C3: an extract_type outside the eight documented ones gives a returned mapping
\* with an error message and the list of exactly the eight valid types; each of the
\* eight is answered by its own sub-extractor, never by the unknown-type branch.
C3_DispatchByType ==
    Returned =>
        /\ outcome = "returned"
        /\ IF call.extract_type \notin ValidTypes THEN
               /\ {"error", "available_types"} \subseteq DOMAIN result
               /\ result.error # <<>>
               /\ Len(result.available_types) = 8
               /\ Range(result.available_types) = ValidTypes
           ELSE /\ "available_types" \notin DOMAIN result
                /\ \/ RaisedInside /\ "error" \in DOMAIN result
                   \/ result \in Matching(call.extract_type)

C3_Witness ==
    /\ Returned
    /\ call.extract_type = "bogus"
    /\ "available_types" \in DOMAIN result
    /\ content # <<>>

C3_WitnessRouted ==
    /\ Returned
    /\ call.extract_type = "urls"
    /\ "urls" \in DOMAIN result
    /\ result.total_found > 0

\* C4: an exception raised inside a sub-extractor does not propagate, and the
\* mapping returned holds success = false together with the error message.
C4_ExceptionGivesSuccessFalse ==
    (Returned /\ RaisedInside) =>
        /\ outcome = "returned"
        /\ "error" \in DOMAIN result
        /\ "success" \in DOMAIN result
        /\ result.success = FALSE

\* the part of C4 the code does keep: the exception is caught and reported
C4_ExceptionCaught ==
    /\ Returned
    /\ RaisedInside
    /\ outcome = "returned"
    /\ DOMAIN result = {"error", "extract_type"}

-----------------------------------------------------------------------------
(* math_utils: the finance entry points. Numbers are exact fractions
   [num, den] with den > 0; a division or a negative power of zero raises
   ZeroDivisionError, which nothing in the module catches. *)

MaxMonths == 2
MaxPeriods == 2

Abs(x) == IF x < 0 THEN -x ELSE x

RECURSIVE Gcd(_, _)
Gcd(a, b) == IF b = 0 THEN a ELSE Gcd(b, a % b)

Sign(d) == IF d < 0 THEN -1 ELSE 1

Reduce(n, d, g) == [num |-> Sign(d) * (n \div g), den |-> Sign(d) * (d \div g)]

Rat(n, d) == Reduce(n, d, Gcd(Abs(n), Abs(d)))

Num(n) == Rat(n, 1)

Add(x, y) == Rat(x.num * y.den + y.num * x.den, x.den * y.den)
Sub(x, y) == Rat(x.num * y.den - y.num * x.den, x.den * y.den)
Mul(x, y) == Rat(x.num * y.num, x.den * y.den)

\* x / y for y # 0
Div(x, y) == Rat(x.num * y.den, x.den * y.num)

IsZero(x) == x.num = 0

\* x ** k for an integer k (0 ** 0 is 1)
RECURSIVE Pow(_, _)
Pow(x, k) ==
    IF k = 0 THEN Num(1)
    ELSE IF k > 0 THEN Mul(x, Pow(x, k - 1))
    ELSE Div(Num(1), Pow(x, -k))

\* x ** k raises ZeroDivisionError
PowRaises(x, k) == k < 0 /\ IsZero(x)

ZeroDivisionError == [raised |-> "ZeroDivisionError"]

\* round to the nearest integer, ties to the even one
RoundHalfEven(n, d) ==
    IF 2 * (n % d) < d THEN n \div d
    ELSE IF 2 * (n % d) > d THEN (n \div d) + 1
    ELSE IF (n \div d) % 2 = 0 THEN n \div d
    ELSE (n \div d) + 1

\* round(x, 2)
Round2(x) == Rat(RoundHalfEven(x.num * 100, x.den), 100)

calculate_tax(income, tax_rate) ==
    [tax_amount |-> Mul(income, tax_rate),
     net_income |-> Mul(income, Sub(Num(1), tax_rate))]

CompoundResult(principal, amount) ==
    [principal |-> principal,
     interest |-> Round2(Sub(amount, principal)),
     total_amount |-> Round2(amount)]

compound_interest(principal, rate, time, n) ==
    IF n = 0 THEN ZeroDivisionError
    ELSE IF PowRaises(Add(Num(1), Div(rate, Num(n))), n * time) THEN ZeroDivisionError
    ELSE CompoundResult(principal,
                        Mul(principal, Pow(Add(Num(1), Div(rate, Num(n))), n * time)))

LoanResult(principal, payment, months) ==
    [monthly_payment |-> Round2(payment),
     total_payment |-> Round2(Mul(payment, Num(months))),
     total_interest |-> Round2(Sub(Mul(payment, Num(months)), principal))]

\* principal * (monthly_rate * growth) / (growth - 1)
AmortizedPayment(principal, monthly_rate, growth) ==
    IF IsZero(Sub(growth, Num(1))) THEN ZeroDivisionError
    ELSE Div(Mul(principal, Mul(monthly_rate, growth)), Sub(growth, Num(1)))

LoanPaymentOf(principal, monthly_rate, months) ==
    IF IsZero(monthly_rate)
      THEN IF months = 0 THEN ZeroDivisionError
           ELSE Div(principal, Num(months))
      ELSE IF PowRaises(Add(Num(1), monthly_rate), months) THEN ZeroDivisionError
           ELSE AmortizedPayment(principal, monthly_rate,
                                 Pow(Add(Num(1), monthly_rate), months))

LoanReturn(principal, payment, months) ==
    IF payment = ZeroDivisionError THEN ZeroDivisionError
    ELSE LoanResult(principal, payment, months)

loan_payment(principal, rate, months) ==
    LoanReturn(principal, LoanPaymentOf(principal, Div(rate, Num(12)), months), months)

RetirementResult(years, monthly_contribution, months, total) ==
    [years_to_retirement |-> years,
     total_contributions |-> Mul(monthly_contribution, Num(months)),
     projected_total |-> Round2(total),
     projected_growth |-> Round2(Sub(total, Mul(monthly_contribution, Num(months))))]

RetirementTotal(monthly_contribution, months, monthly_return) ==
    IF IsZero(monthly_return) THEN Mul(monthly_contribution, Num(months))
    ELSE Div(Mul(monthly_contribution,
                 Sub(Pow(Add(Num(1), monthly_return), months), Num(1))),
             monthly_return)

retirement_savings(current_age, retirement_age, monthly_contribution, annual_return) ==
    IF PowRaises(Add(Num(1), Div(annual_return, Num(12))), (retirement_age - current_age) * 12)
            /\ ~IsZero(Div(annual_return, Num(12)))
      THEN ZeroDivisionError
      ELSE RetirementResult(retirement_age - current_age, monthly_contribution,
                            (retirement_age - current_age) * 12,
                            RetirementTotal(monthly_contribution,
                                            (retirement_age - current_age) * 12,
                                            Div(annual_return, Num(12))))

-----------------------------------------------------------------------------
(* The finance entry points called by a caller that catches nothing *)

Amounts == {Num(0), Num(100), Num(1000)}
Rates == {Num(0), Num(6), Num(-12)}
TaxRates == {Num(0), Rat(1, 4), Num(1)}
Ages == {30, 31}
Contributions == {Num(0), Num(100)}
Returns == {Num(0), Num(12), Num(-12)}

\* the caller's view of one call: a mapping returned, or a fault
Invoke(entry, args, r) ==
    /\ call' = [entry |-> entry, args |-> args]
    /\ result' = r
    /\ outcome' = IF "raised" \in DOMAIN r THEN "raised" ELSE "returned"

CalculateTax ==
    /\ \E income \in Amounts, tax_rate \in TaxRates :
           Invoke("calculate_tax", <<income, tax_rate>>, calculate_tax(income, tax_rate))
    /\ UNCHANGED <<content, parserVars, pc>>

CompoundInterest ==
    /\ \E principal \in Amounts, rate \in Rates, time \in 0..1, n \in 0..MaxPeriods :
           Invoke("compound_interest", <<principal, rate, time, n>>,
                  compound_interest(principal, rate, time, n))
    /\ UNCHANGED <<content, parserVars, pc>>

LoanPayment ==
    /\ \E principal \in Amounts, rate \in Rates, months \in 0..MaxMonths :
           Invoke("loan_payment", <<principal, rate, months>>,
                  loan_payment(principal, rate, months))
    /\ UNCHANGED <<content, parserVars, pc>>

RetirementSavings ==
    /\ \E current_age \in Ages, retirement_age \in Ages,
          monthly_contribution \in Contributions, annual_return \in Returns :
           Invoke("retirement_savings",
                  <<current_age, retirement_age, monthly_contribution, annual_return>>,
                  retirement_savings(current_age, retirement_age,
                                     monthly_contribution, annual_return))
    /\ UNCHANGED <<content, parserVars, pc>>

EntryNext == CalculateTax \/ CompoundInterest \/ LoanPayment \/ RetirementSavings

SpecEntry == Init /\ [][EntryNext]_vars

FinanceEntries ==
    {"calculate_tax", "compound_interest", "loan_payment", "retirement_savings"}

\* C5: every entry point returns a well-formed response mapping for every
\* input of its documented types, and no error reaches the caller as an
\* unhandled fault (loan_payment with rate 0 and months 0, compound_interest
\* with n 0 included).
C5_EntryPointsAlwaysReturnMapping ==
    call.entry \in FinanceEntries =>
        /\ outcome = "returned"
        /\ "raised" \notin DOMAIN result

\* loan_payment(1000, 0, 2) returns its three-field mapping
C5_LoanPaymentReturns ==
    /\ call = [entry |-> "loan_payment", args |-> <<Num(1000), Num(0), 2>>]
    /\ outcome = "returned"
    /\ result = [monthly_payment |-> Num(500), total_payment |-> Num(1000),
                 total_interest |-> Num(0)]

\* loan_payment(1000, 0, 0) faults at principal / months
C5_LoanPaymentFaults ==
    /\ call = [entry |-> "loan_payment", args |-> <<Num(1000), Num(0), 0>>]
    /\ outcome = "raised"
    /\ result = ZeroDivisionError

-----------------------------------------------------------------------------
(* extract_links on documents of anchors: a free opening, then the last tag
   again and again so that a category outgrows its cap *)

MaxMixed == 2
MaxLinks == 22

LinkHrefs ==
    { <<"#", "top">>,
      <<"/foo">>,
      <<"http:", "//", "x.com", "/foo">>,
      <<"http:", "//", "y.com", "/">>,
      <<"mailto:", "a@b.com">> }

LinkTokens == {StartTok("a", [href |-> h]) : h \in LinkHrefs} \cup {StartTok("a", NoAttrs)}

LinkOptions ==
    { EmptyDict,
      [filter_external |-> TRUE],
      [base_url |-> BaseUrl],
      [base_url |-> BaseUrl, filter_external |-> TRUE] }

LinkFeed ==
    /\ pc = "feed" /\ Len(content) < MaxLinks
    /\ \E tok \in LinkTokens :
          /\ Len(content) >= MaxMixed => tok = Last(content)
          /\ Handle(tok)
    /\ UNCHANGED callVars

LinkDispatch ==
    \E options \in LinkOptions, hashOrder \in HashOrders :
        MainCall("links", options, hashOrder)

LinkNext == LinkFeed \/ LinkDispatch

SpecLinks == Init /\ [][LinkNext]_vars

\* extract_links has returned its mapping
LinksReturned ==
    /\ Returned
    /\ call.extract_type = "links"
    /\ "success" \in DOMAIN result

\* the links that remain after filtering, and the base_url of the call
KeptLinks == FilteredLinks(links, call.options)
CallBase == Get(call.options, "base_url", <<>>)

\* the host of an absolute URL ("" when it has none)
HostOf(url) == IF Len(url) >= 3 /\ url[2] = "//" THEN url[3] ELSE ""

IsHttp(url) ==
    url # <<>> /\ Head(url) \in {"http:", "https:"} /\ HostOf(url) # ""

HasScheme(url) == url # <<>> /\ Head(url) \in Schemes

\* the categories as the rule of the claim gives them, from the link's href
\* and its resolved form
RuleAnchor(l) == l.href # <<>> /\ Head(l.href) = "#"

RuleInternal(l) ==
    /\ ~RuleAnchor(l)
    /\ \/ ~HasScheme(l.href)
       \/ CallBase # <<>> /\ HostOf(HrefOf(l)) = HostOf(CallBase)

RuleExternal(l) ==
    /\ ~RuleAnchor(l)
    /\ IsHttp(l.href)
    /\ HostOf(l.href) # HostOf(CallBase)

CountOf(ls, P(_)) == Cardinality({i \in DOMAIN ls : P(ls[i])})

\* C6: every link that remains after filtering is an anchor iff its href starts
\* with '#', internal if its href has no scheme or its host is base_url's, external
\* if it is an absolute http(s) URL on another host; with base_url, '/foo' resolves
\* to base_url + '/foo' and is internal.
C6_ClassificationRule ==
    LinksReturned =>
        /\ \A l \in Range(result.anchor_links) : RuleAnchor(l)
        /\ \A l \in Range(result.internal_links) \cup Range(result.external_links) :
              ~RuleAnchor(l)
        /\ result.stats.anchor_count = CountOf(KeptLinks, RuleAnchor)
        /\ \A l \in Range(result.external_links) : ~RuleInternal(l)
        /\ \A l \in Range(result.internal_links) : ~RuleExternal(l)
        /\ CallBase # <<>> =>
              \A i \in DOMAIN links :
                  links[i].href = <<"/foo">> =>
                      links[i].absolute_href = CallBase \o <<"/foo">>

\* the part of C6 the code keeps: '/foo' is resolved against base_url and internal
C6_RelativeResolvedInternal ==
    /\ LinksReturned
    /\ CallBase = BaseUrl
    /\ \E l \in Range(result.internal_links) :
          l.href = <<"/foo">> /\ l.absolute_href = <<"http:", "//", "x.com", "/foo">>

\* with base_url an href '#top' is resolved first and counted internal
C6_AnchorLostWithBase ==
    /\ LinksReturned
    /\ CallBase = BaseUrl
    /\ \E l \in Range(result.internal_links) : l.href = <<"#", "top">>
    /\ result.stats.anchor_count = 0

Min(a, b) == IF a < b THEN a ELSE b

Disjoint(xs, ys) == Range(xs) \cap Range(ys) = {}

\* out is the first min(count, cap) links of the category, whose size is count
IsPrefixOf(out, count, cap, category) ==
    /\ count = Len(category)
    /\ Len(out) = Min(count, cap)
    /\ out = SubSeq(category, 1, Len(out))

IsPrefixOfCategory(out, count, cap, ls, cat) ==
    IsPrefixOf(out, count, cap, CategoryList(ls, CallBase, cat))

\* C7: the three categories are disjoint and cover the filtered links, so the
\* three counts add up to total_links; each list is the first min(count, cap)
\* links of its category in document order (cap 20, 20 and 10); the counts are
\* the uncapped sizes.
C7_CountsAndCaps ==
    LinksReturned =>
        /\ result.total_links = Len(KeptLinks)
        /\ result.stats.internal_count + result.stats.external_count
               + result.stats.anchor_count = result.total_links
        /\ Disjoint(result.internal_links, result.external_links)
        /\ Disjoint(result.internal_links, result.anchor_links)
        /\ Disjoint(result.external_links, result.anchor_links)
        /\ IsPrefixOfCategory(result.internal_links, result.stats.internal_count,
                              20, KeptLinks, "internal")
        /\ IsPrefixOfCategory(result.external_links, result.stats.external_count,
                              20, KeptLinks, "external")
        /\ IsPrefixOfCategory(result.anchor_links, result.stats.anchor_count,
                              10, KeptLinks, "anchor")

\* more internal links than the cap, after an anchor
C7_Witness ==
    /\ LinksReturned
    /\ result.stats.internal_count > 20
    /\ Len(result.internal_links) = 20
    /\ result.stats.anchor_count = 1
    /\ result.total_links = result.stats.internal_count + 1

\* more anchors than their cap
C7_WitnessAnchors ==
    /\ LinksReturned
    /\ result.stats.anchor_count > 10
    /\ Len(result.anchor_links) = 10

-----------------------------------------------------------------------------
(* extract_text on documents of well-formed headings and paragraphs *)

MaxTextTokens == 7

TextTags == {"h1", "h2", "p"}

TextData ==
    { <<"a", ".", " ", " ", "b">>,
      <<"b", "!", "?">>,
      <<" ", "c", "d", "\n">>,
      <<" ">> }

TextLengths == {0, 3, 6}

TextOptions ==
    {EmptyDict, [include_headings |-> FALSE]}
        \cup {[max_length |-> PyInt(n)] : n \in TextLengths}
        \cup {[include_headings |-> FALSE, max_length |-> PyInt(n)] : n \in TextLengths}

TextStartTag ==
    /\ pc = "feed" /\ Len(content) < MaxTextTokens
    /\ current_tag = "None"
    /\ \E tag \in TextTags : Handle(StartTok(tag, NoAttrs))
    /\ UNCHANGED callVars

TextDataTok ==
    /\ pc = "feed" /\ Len(content) < MaxTextTokens
    /\ current_tag # "None"
    /\ Last(content).kind = "start"
    /\ \E d \in TextData : Handle(DataTok(d))
    /\ UNCHANGED callVars

TextEndTag ==
    /\ pc = "feed" /\ Len(content) < MaxTextTokens
    /\ current_tag # "None"
    /\ Handle(EndTok(current_tag))
    /\ UNCHANGED callVars

TextDispatch ==
    \E options \in TextOptions, hashOrder \in HashOrders :
        MainCall("text", options, hashOrder)

TextNext == TextStartTag \/ TextDataTok \/ TextEndTag \/ TextDispatch

SpecText == Init /\ [][TextNext]_vars

\* extract_text has returned its mapping
TextReturned ==
    /\ Returned
    /\ call.extract_type = "text"
    /\ "success" \in DOMAIN result

CallMaxLength == Get(call.options, "max_length", PyInt(5000)).val

\* position i of s opens a word: a maximal run without whitespace
IsWordStart(s, i) == s[i] \notin Whitespace /\ (i = 1 \/ s[i - 1] \in Whitespace)

\* the last position of the word that opens at i
WordEnd(s, i) ==
    CHOOSE j \in i..Len(s) :
        /\ \A k \in i..j : s[k] \notin Whitespace
        /\ j = Len(s) \/ s[j + 1] \in Whitespace

\* the words of s from position i on
RECURSIVE WordsFrom(_, _)
WordsFrom(s, i) ==
    IF i > Len(s) THEN <<>>
    ELSE IF IsWordStart(s, i) THEN <<SubSeq(s, i, WordEnd(s, i))>> \o WordsFrom(s, i + 1)
    ELSE WordsFrom(s, i + 1)

\* the heading texts (when included) and the paragraph texts, joined by spaces,
\* with every run of whitespace made one space and none at either end
CleanText ==
    Join(WordsFrom(Join((IF Get(call.options, "include_headings", TRUE)
                           THEN HeadingsByLevel(headings, 1) ELSE <<>>) \o paragraphs,
                        <<" ">>), 1),
         <<" ">>)

WordCountOf(s) == Cardinality({i \in DOMAIN s : IsWordStart(s, i)})

LetterCountOf(s) == Cardinality({i \in DOMAIN s : s[i] \notin Whitespace})

\* position i of s opens a sentence with something in it: no mark just before
\* i, and a character other than whitespace before the next mark
IsSentenceStart(s, i) ==
    /\ s[i] \notin {".", "!", "?"}
    /\ i = 1 \/ s[i - 1] \in {".", "!", "?"}
    /\ \E j \in i..Len(s) :
          /\ s[j] \notin Whitespace
          /\ \A k \in i..j : s[k] \notin {".", "!", "?"}

SentenceCountOf(s) == Cardinality({i \in DOMAIN s : IsSentenceStart(s, i)})

C8_WitnessWhole ==
    /\ TextReturned
    /\ CallMaxLength = 6
    /\ result.text = <<"b", "!", "?", " ", "c", "d">>
    /\ result.stats.sentence_count = 2
    /\ result.stats.average_word_length = [num |-> 5, den |-> 2]

-----------------------------------------------------------------------------
(* extract_structured on short documents of headings of several levels *)

MaxOutlineTokens == 6

OutlineTags == {"h1", "h2", "h3"}

OutlineData == {<<"x">>, <<" ", "y", " ">>}

OutlineStartTag ==
    /\ pc = "feed" /\ Len(content) < MaxOutlineTokens
    /\ current_tag = "None"
    /\ \E tag \in OutlineTags : Handle(StartTok(tag, NoAttrs))
    /\ UNCHANGED callVars

OutlineDataTok ==
    /\ pc = "feed" /\ Len(content) < MaxOutlineTokens
    /\ current_tag # "None"
    /\ Last(content).kind = "start"
    /\ \E d \in OutlineData : Handle(DataTok(d))
    /\ UNCHANGED callVars

OutlineEndTag ==
    /\ pc = "feed" /\ Len(content) < MaxOutlineTokens
    /\ current_tag # "None"
    /\ Handle(EndTok(current_tag))
    /\ UNCHANGED callVars

OutlineDispatch ==
    \E hashOrder \in HashOrders : MainCall("structured", EmptyDict, hashOrder)

OutlineNext == OutlineStartTag \/ OutlineDataTok \/ OutlineEndTag \/ OutlineDispatch

SpecOutline == Init /\ [][OutlineNext]_vars

\* extract_structured has returned its mapping
StructuredReturned ==
    /\ Returned
    /\ call.extract_type = "structured"
    /\ "success" \in DOMAIN result

\* position k of c closes a heading with text: <hN>, its text, </hN>
ClosesHeading(c, k) ==
    /\ k >= 3
    /\ c[k].kind = "end" /\ c[k].tag \in HeadingTags
    /\ c[k - 1].kind = "data" /\ Strip(c[k - 1].data) # <<>>
    /\ c[k - 2].kind = "start" /\ c[k - 2].tag = c[k].tag

\* the headings of c from position k on, as they follow one another in c
RECURSIVE HeadingsInOrder(_, _)
HeadingsInOrder(c, k) ==
    IF k > Len(c) THEN <<>>
    ELSE IF ClosesHeading(c, k)
        THEN <<[level |-> c[k].tag, text |-> Strip(c[k - 1].data)]>>
                 \o HeadingsInOrder(c, k + 1)
    ELSE HeadingsInOrder(c, k + 1)

\* C9: the outline holds one entry per recorded heading, tagged with its level
\* and text, and the entries follow document order across all levels: an h2
\* that precedes an h1 in the document precedes it in the outline.
C9_OutlineInDocumentOrder ==
    StructuredReturned =>
        result.document_outline = HeadingsInOrder(content, 1)

\* headings of one level, or of rising levels, do come out in document order
C9_OutlineOfRisingLevels ==
    /\ StructuredReturned
    /\ result.document_outline = <<[level |-> "h1", text |-> <<"x">>],
                                   [level |-> "h2", text |-> <<"y">>]>>
    /\ HeadingsInOrder(content, 1) = result.document_outline

\* an h2 before an h1 comes out after it
C9_OutlineByLevel ==
    /\ StructuredReturned
    /\ HeadingsInOrder(content, 1) = <<[level |-> "h2", text |-> <<"x">>],
                                       [level |-> "h1", text |-> <<"y">>]>>
    /\ result.document_outline = <<[level |-> "h1", text |-> <<"y">>],
                                   [level |-> "h2", text |-> <<"x">>]>>

-----------------------------------------------------------------------------
(* extract_structured on long documents: a free opening of elements, then the
   last kind of element again and again so that a list outgrows its cap *)

MaxFree == 3
MaxStructTokens == 65

StructStarts ==
    { StartTok("script", [type |-> JsonLdType]),
      StartTok("h1", NoAttrs),
      StartTok("h2", NoAttrs),
      StartTok("img", [src |-> <<"/i">>, alt |-> <<"a">>]),
      StartTok("img", [src |-> <<"/i">>]) }

\* the texts an element of the tag may hold
StructData(tag) ==
    IF tag = "script" THEN {<<"{", "}">>, <<" ", "[", "]", "\n">>, <<"{">>}
    ELSE {<<"x">>}

\* the last token of kind kind in c, or none when there is none
LastOfKind(c, kind, none) ==
    IF \E k \in DOMAIN c : c[k].kind = kind
        THEN c[CHOOSE k \in DOMAIN c :
                 /\ c[k].kind = kind
                 /\ \A m \in DOMAIN c : c[m].kind = kind => m <= k]
        ELSE none

\* past the free opening a token repeats the last one of its kind
Repeats(c, tok) ==
    Len(c) >= MaxFree => tok = LastOfKind(c, tok.kind, tok)

\* an element is open: its start tag is the last token and it takes text
ElementOpen(c) ==
    IF c = <<>> THEN FALSE ELSE Last(c).kind = "start" /\ Last(c).tag # "img"

\* no element is open and none awaits its end tag
BetweenElements(c) ==
    IF c = <<>> THEN TRUE ELSE Last(c).kind = "end" \/ Last(c).tag = "img"

\* the text of an element was read: its end tag is due
TextRead(c) == IF c = <<>> THEN FALSE ELSE Last(c).kind = "data"

StructStartTag ==
    /\ pc = "feed" /\ Len(content) < MaxStructTokens
    /\ BetweenElements(content)
    /\ \E tok \in StructStarts : Repeats(content, tok) /\ Handle(tok)
    /\ UNCHANGED callVars

StructDataTok ==
    /\ pc = "feed" /\ Len(content) < MaxStructTokens
    /\ ElementOpen(content)
    /\ \E d \in StructData(Last(content).tag) :
          Repeats(content, DataTok(d)) /\ Handle(DataTok(d))
    /\ UNCHANGED callVars

StructEndTag ==
    /\ pc = "feed" /\ Len(content) < MaxStructTokens
    /\ TextRead(content)
    /\ Handle(EndTok(content[Len(content) - 1].tag))
    /\ UNCHANGED callVars

StructDispatch ==
    \E hashOrder \in HashOrders : MainCall("structured", EmptyDict, hashOrder)

StructNext == StructStartTag \/ StructDataTok \/ StructEndTag \/ StructDispatch

SpecStruct == Init /\ [][StructNext]_vars

\* position k of c closes a JSON-LD block that parses
ClosesJsonLd(c, k) ==
    /\ k >= 3
    /\ c[k] = EndTok("script")
    /\ c[k - 1].kind = "data"
    /\ \/ SelectSeq(c[k - 1].data, LAMBDA x : x \notin Whitespace) = <<"{", "}">>
       \/ SelectSeq(c[k - 1].data, LAMBDA x : x \notin Whitespace) = <<"[", "]">>
    /\ c[k - 2] = StartTok("script", [type |-> <<"application/ld+json">>])

\* n: the JSON-LD blocks that parse; m: the outline entries, before capping
BlockTotal == Cardinality({k \in DOMAIN content : ClosesJsonLd(content, k)})
OutlineTotal == Cardinality({k \in DOMAIN content : ClosesHeading(content, k)})

\* the fields of the result that report something other than a total
OtherFields ==
    {"success", "json_ld", "has_json_ld", "microdata_indicators", "document_outline",
     "images_with_alt", "total_images"}

\* the result has a field for each total, holding it
ReportsTotals(n, m) ==
    \E f \in DOMAIN result \ OtherFields, g \in DOMAIN result \ OtherFields :
        f # g /\ result[f] = n /\ result[g] = m

ImagesIn(c, withAlt) ==
    Cardinality({k \in DOMAIN c :
                    /\ c[k].kind = "start" /\ c[k].tag = "img" /\ "src" \in DOMAIN c[k].attrs
                    /\ withAlt => "alt" \in DOMAIN c[k].attrs /\ c[k].attrs.alt # <<>>})

\* the lists are capped to their first 5 and first 20 entries, and the image
\* counts are those of the document
CapsAndImageCounts ==
    /\ Len(result.json_ld) = Min(BlockTotal, 5)
    /\ result.json_ld = SubSeq(ParsedBlocks(content), 1, Len(result.json_ld))
    /\ Len(result.document_outline) = Min(OutlineTotal, 20)
    /\ result.document_outline = SubSeq(Outline(headings, 1), 1, Len(result.document_outline))
    /\ result.images_with_alt = ImagesIn(content, TRUE)
    /\ result.total_images = ImagesIn(content, FALSE)

\* C10: json_ld is the first min(n, 5) parsed blocks and the outline the first
\* min(m, 20) entries, the result also reports the totals n and m before
\* capping, and it reports the images with non-empty alt text and all images.
C10_CapsWithTotals ==
    StructuredReturned =>
        /\ CapsAndImageCounts
        /\ ReportsTotals(BlockTotal, OutlineTotal)

\* the part of C10 the code keeps, on every document
C10_Caps == StructuredReturned => CapsAndImageCounts

\* six blocks parse, five are returned, and nothing tells there was a sixth
C10_SixthBlockUnreported ==
    /\ StructuredReturned
    /\ BlockTotal = 6
    /\ Len(result.json_ld) = 5
    /\ DOMAIN result = OtherFields
    /\ result.images_with_alt = 1 /\ result.total_images = 2

\* twenty-one headings, twenty outline entries
C10_OutlineCapped ==
    /\ StructuredReturned
    /\ OutlineTotal = 21
    /\ Len(result.document_outline) = 20

-----------------------------------------------------------------------------
(* extract_structured on documents of script blocks: a free opening, then the
   last block again, with blocks that parse and blocks that do not *)

MaxFreeBlockTokens == 6
MaxBlockTokens == 21

BlockStarts == {StartTok("script", [type |-> JsonLdType]), StartTok("script", NoAttrs)}

BlockData == {<<"{", "}">>, <<" ", "[", "]", "\n">>, <<"{">>, <<"x">>}

\* past the free opening a token repeats the last one of its kind
RepeatsBlock(c, tok) ==
    Len(c) >= MaxFreeBlockTokens => tok = LastOfKind(c, tok.kind, tok)

BlockStartTag ==
    /\ pc = "feed" /\ Len(content) < MaxBlockTokens
    /\ BetweenElements(content)
    /\ \E tok \in BlockStarts : RepeatsBlock(content, tok) /\ Handle(tok)
    /\ UNCHANGED callVars

BlockDataTok ==
    /\ pc = "feed" /\ Len(content) < MaxBlockTokens
    /\ ElementOpen(content)
    /\ \E d \in BlockData : RepeatsBlock(content, DataTok(d)) /\ Handle(DataTok(d))
    /\ UNCHANGED callVars

\* a block may be closed: after its text, or (in the opening) while empty
Closable(c) ==
    IF TextRead(c) THEN TRUE ELSE ElementOpen(c) /\ Len(c) < MaxFreeBlockTokens

BlockEndTag ==
    /\ pc = "feed" /\ Len(content) < MaxBlockTokens
    /\ Closable(content)
    /\ Handle(EndTok("script"))
    /\ UNCHANGED callVars

BlockDispatch ==
    \E hashOrder \in HashOrders : MainCall("structured", EmptyDict, hashOrder)

BlockNext == BlockStartTag \/ BlockDataTok \/ BlockEndTag \/ BlockDispatch

SpecBlocks == Init /\ [][BlockNext]_vars

\* position k of c closes a JSON-LD script block, whatever it holds
ClosesJsonLdBlock(c, k) ==
    /\ c[k] = EndTok("script")
    /\ \/ k >= 2 /\ c[k - 1] = StartTok("script", [type |-> <<"application/ld+json">>])
       \/ /\ k >= 3 /\ c[k - 1].kind = "data"
          /\ c[k - 2] = StartTok("script", [type |-> <<"application/ld+json">>])

\* what the block closed at position k parses to
ParsedAt(c, k) ==
    [type |-> IF "{" \in Range(c[k - 1].data) THEN "dict" ELSE "list", items |-> <<>>]

ParsedPositions(c) == SelectSeq([k \in DOMAIN c |-> k], LAMBDA k : ClosesJsonLd(c, k))

\* the blocks of c that parse, in document order
ParseableInOrder(c) ==
    [n \in DOMAIN ParsedPositions(c) |-> ParsedAt(c, ParsedPositions(c)[n])]

\* C11: a JSON-LD block that fails to parse is skipped, with no error and no
\* effect on the other blocks: success is true, json_ld holds exactly the blocks
\* that parse, in document order, up to the cap, and has_json_ld is true iff at
\* least one block parsed.
C11_MalformedBlocksSkipped ==
    StructuredReturned =>
        /\ result.success = TRUE
        /\ "error" \notin DOMAIN result
        /\ result.json_ld =
               SubSeq(ParseableInOrder(content), 1, Min(Len(ParseableInOrder(content)), 5))
        /\ result.has_json_ld = (Len(ParseableInOrder(content)) > 0)

\* two blocks, the malformed one first: one entry, has_json_ld true
C11_Witness ==
    /\ StructuredReturned
    /\ Cardinality({k \in DOMAIN content : ClosesJsonLdBlock(content, k)}) = 2
    /\ Len(content) >= 3
    /\ ClosesJsonLdBlock(content, 3) /\ ~ClosesJsonLd(content, 3)
    /\ Len(result.json_ld) = 1
    /\ result.has_json_ld = TRUE

\* a malformed block, then more blocks that parse than the cap lets through
C11_WitnessCapped ==
    /\ StructuredReturned
    /\ Len(content) >= 3
    /\ ClosesJsonLdBlock(content, 3) /\ ~ClosesJsonLd(content, 3)
    /\ Len(ParseableInOrder(content)) = 6
    /\ Len(result.json_ld) = 5

-----------------------------------------------------------------------------
(* extract_metadata on documents of meta tags *)

MaxMetaTags == 3

MetaAttrs ==
    { [name |-> <<"description">>, content |-> <<"d">>],
      [name |-> <<"Description">>, content |-> <<"e">>],
      [name |-> <<"viewport">>, content |-> <<"w">>],
      [name |-> <<"robots">>, content |-> <<"r">>],
      [charset |-> <<"utf-8">>],
      [charset |-> <<>>],
      [property |-> <<"og:", "title">>, content |-> <<"t">>],
      [property |-> <<"OG:", "title">>, content |-> <<"u">>],
      [property |-> <<"twitter:", "card">>, content |-> <<"s">>],
      [name |-> <<"author">>, property |-> <<"og:", "x">>, charset |-> <<"utf-8">>,
       content |-> <<"c">>],
      NoAttrs }

MetaFeed ==
    /\ pc = "feed" /\ Len(content) < MaxMetaTags
    /\ \E attrs \in MetaAttrs : Handle(StartTok("meta", attrs))
    /\ UNCHANGED callVars

MetaDispatch ==
    \E hashOrder \in HashOrders : MainCall("metadata", EmptyDict, hashOrder)

MetaNext == MetaFeed \/ MetaDispatch

SpecMeta == Init /\ [][MetaNext]_vars

\* extract_metadata has returned its mapping
MetadataReturned ==
    /\ Returned
    /\ call.extract_type = "metadata"
    /\ "success" \in DOMAIN result

\* the conditions of the rule, names and properties read without regard to case
NamedFields == {<<"description">>, <<"keywords">>, <<"author">>, <<"viewport">>}

IsNamed(tag) == "name" \in DOMAIN tag /\ Lower(tag.name) \in NamedFields

HasCharset(tag) == "charset" \in DOMAIN tag

HasPrefix(tag, prefix) ==
    /\ "property" \in DOMAIN tag
    /\ tag.property # <<>>
    /\ LowerAtom(Head(tag.property)) = prefix

NoneApply(tag) ==
    ~IsNamed(tag) /\ ~HasCharset(tag) /\ ~HasPrefix(tag, "og:") /\ ~HasPrefix(tag, "twitter:")

\* every key of the bucket is the property of a collected tag with the prefix
BucketFrom(bucket, prefix) ==
    \A key \in DOMAIN bucket :
        \E i \in DOMAIN meta_tags :
            /\ HasPrefix(meta_tags[i], prefix)
            /\ Lower(meta_tags[i].property) = key
            /\ bucket[key] = Get(meta_tags[i], "content", <<>>)

\* a tag that only its property classifies is in the bucket of its prefix
BucketHolds(bucket, prefix) ==
    \A i \in DOMAIN meta_tags :
        (HasPrefix(meta_tags[i], prefix) /\ ~IsNamed(meta_tags[i]) /\ ~HasCharset(meta_tags[i]))
            => Lower(meta_tags[i].property) \in DOMAIN bucket

\* C12: every collected meta tag goes to exactly one bucket: a named field by
\* its name, the charset field when it has a charset attribute, the Open-Graph
\* or Twitter bucket by the prefix of its property, and the 'other' list,
\* verbatim, exactly when none of these apply; has_og_tags and has_twitter_tags
\* tell whether their bucket is non-empty; total_meta_tags counts the tags.
C12_MetaBuckets ==
    MetadataReturned =>
        /\ result.metadata.other = SelectSeq(meta_tags, NoneApply)
        /\ BucketFrom(result.metadata.og_tags, "og:")
        /\ BucketFrom(result.metadata.twitter_tags, "twitter:")
        /\ BucketHolds(result.metadata.og_tags, "og:")
        /\ BucketHolds(result.metadata.twitter_tags, "twitter:")
        /\ result.has_og_tags = (DOMAIN result.metadata.og_tags # {})
        /\ result.has_twitter_tags = (DOMAIN result.metadata.twitter_tags # {})
        /\ result.total_meta_tags = Len(meta_tags)

\* a named tag, an Open-Graph tag and a tag of no bucket, each in its place
C12_Witness ==
    /\ MetadataReturned
    /\ result.metadata.description = <<"d">>
    /\ DOMAIN result.metadata.og_tags = {<<"og:", "title">>}
    /\ result.metadata.other = <<[name |-> <<"robots">>, content |-> <<"r">>]>>
    /\ result.has_og_tags = TRUE /\ result.has_twitter_tags = FALSE
    /\ result.total_meta_tags = 3

\* a tag whose charset attribute is empty is put on the 'other' list
C12_EmptyCharsetInOther ==
    /\ MetadataReturned
    /\ meta_tags = <<[charset |-> <<>>]>>
    /\ result.metadata.other = <<[charset |-> <<>>]>>
    /\ result.metadata.charset = <<>>

-----------------------------------------------------------------------------
(* extract_emails on a text of addresses: a free opening, then one new
   address after the other *)

MaxFreeEmails == 3
MaxEmailTokens == 25

OpeningWords == {<<"a@b.com">>, <<"u01@x.com">>, <<"u02@x.com">>, <<"or", " ">>}

EmailOpening ==
    /\ pc = "feed" /\ Len(content) < MaxFreeEmails
    /\ \E d \in OpeningWords : Handle(DataTok(d))
    /\ UNCHANGED callVars

\* the next address not written by this action so far
EmailNext ==
    /\ pc = "feed" /\ Len(content) >= MaxFreeEmails /\ Len(content) < MaxEmailTokens
    /\ Len(content) - MaxFreeEmails < Len(NumberedEmails)
    /\ Handle(DataTok(<<NumberedEmails[Len(content) - MaxFreeEmails + 1], " ">>))
    /\ UNCHANGED callVars

EmailDispatch ==
    \E hashOrder \in HashOrders : MainCall("emails", EmptyDict, hashOrder)

EmailsNext == EmailOpening \/ EmailNext \/ EmailDispatch

SpecEmails == Init /\ [][EmailsNext]_vars

\* extract_emails has returned its mapping
EmailsReturned ==
    /\ Returned
    /\ call.extract_type = "emails"
    /\ "success" \in DOMAIN result

\* the addresses matched in the content, each once
MatchedAddresses ==
    {<<a>> : a \in {b \in EmailAtoms :
                        \E k \in DOMAIN content :
                            \E i \in DOMAIN content[k].data : content[k].data[i] = b}}

\* the number of matches, copies counted
MatchCount ==
    Cardinality({ki \in (DOMAIN content) \X (1..2) :
                    IF ki[2] <= Len(content[ki[1]].data)
                    THEN content[ki[1]].data[ki[2]] \in EmailAtoms
                    ELSE FALSE})

\* C13: the returned emails hold no duplicates, are min(d, 20) of the d
\* distinct matched addresses, and total_found = d ('a@b.com or a@b.com' gives
\* one email and total_found = 1).
C13_EmailsDeduplicated ==
    EmailsReturned =>
        /\ \A i, j \in DOMAIN result.emails : result.emails[i] = result.emails[j] => i = j
        /\ Len(result.emails) = Min(Cardinality(MatchedAddresses), 20)
        /\ \A i \in DOMAIN result.emails : result.emails[i] \in MatchedAddresses
        /\ result.total_found = Cardinality(MatchedAddresses)

\* 'a@b.com or a@b.com'
C13_Witness ==
    /\ EmailsReturned
    /\ content = <<DataTok(<<"a@b.com">>), DataTok(<<"or", " ">>), DataTok(<<"a@b.com">>)>>
    /\ result.emails = << <<"a@b.com">> >>
    /\ result.total_found = 1

\* more distinct addresses than the cap, some written twice
C13_WitnessCapped ==
    /\ EmailsReturned
    /\ MatchCount > Cardinality(MatchedAddresses)
    /\ result.total_found = 21
    /\ Len(result.emails) = 20

-----------------------------------------------------------------------------
(* simple_math.py: main(operation, a, b).  An operand is an integer
   [int |-> n], a list of integers [list |-> xs] or None; a quotient, a mean
   or a power is the fraction the float stands for, a square root is kept as
   [sqrt |-> x]; a formatted operation is the sequence of its parts *)

MaxN == 6
MaxOperand == 2

None == [none |-> TRUE]
IntOperand(n) == [int |-> n]
ListOperand(xs) == [list |-> xs]
IsNone(x) == "none" \in DOMAIN x
IsInt(x) == "int" \in DOMAIN x
IsList(x) == "list" \in DOMAIN x

TypeError == [raised |-> "TypeError"]

RECURSIVE Sum(_)
Sum(xs) == IF xs = <<>> THEN 0 ELSE xs[1] + Sum(Tail(xs))

RECURSIVE Repeat(_, _)
Repeat(xs, k) == IF k <= 0 THEN <<>> ELSE xs \o Repeat(xs, k - 1)

Sorted(xs) == SortSeq(xs, LAMBDA x, y : x < y)

\* int(math.sqrt(n)) for n >= 0
Isqrt(n) == CHOOSE k \in 0..n : k * k <= n /\ (k + 1) * (k + 1) > n

RECURSIVE Factorial(_)
Factorial(n) == IF n = 0 THEN 1 ELSE n * Factorial(n - 1)

\* the list, were a name left out
availableWithoutLast ==
    <<"add", "subtract", "multiply", "divide", "power", "sqrt",
      "factorial", "gcd", "lcm", "mean", "median", "mode",
      "variance", "stddev", "prime_check">>

\* the list of the else branch
available ==
    <<"add", "subtract", "multiply", "divide", "power", "sqrt",
      "factorial", "gcd", "lcm", "mean", "median", "mode",
      "variance", "stddev", "prime_check", "fibonacci">>

add(a, b) ==
    IF IsNone(b) THEN [error |-> "Addition requires two operands"]
    ELSE IF IsList(a) THEN TypeError
    ELSE [result |-> a.int + b.int, operation |-> <<a.int, " + ", b.int>>]

subtract(a, b) ==
    IF IsNone(b) THEN [error |-> "Subtraction requires two operands"]
    ELSE IF IsList(a) THEN TypeError
    ELSE [result |-> a.int - b.int, operation |-> <<a.int, " - ", b.int>>]

multiply(a, b) ==
    IF IsNone(b) THEN [error |-> "Multiplication requires two operands"]
    ELSE IF IsList(a)
         THEN [result |-> Repeat(a.list, b.int), operation |-> <<a.list, " x ", b.int>>]
    ELSE [result |-> a.int * b.int, operation |-> <<a.int, " x ", b.int>>]

divide(a, b) ==
    IF IsNone(b) THEN [error |-> "Division requires two operands"]
    ELSE IF b.int = 0 THEN [error |-> "Division by zero is undefined"]
    ELSE IF IsList(a) THEN TypeError
    ELSE [result |-> Rat(a.int, b.int), operation |-> <<a.int, " / ", b.int>>]

power(a, b) ==
    IF IsNone(b) THEN [error |-> "Power operation requires two operands"]
    ELSE IF IsList(a) THEN TypeError
    ELSE IF PowRaises(Num(a.int), b.int) THEN ZeroDivisionError
    ELSE [result |-> Pow(Num(a.int), b.int), operation |-> <<a.int, "^", b.int>>]

sqrt(a) ==
    IF IsList(a) THEN TypeError
    ELSE IF a.int < 0 THEN [error |-> "Cannot calculate square root of negative number"]
    ELSE [result |-> [sqrt |-> Num(a.int)], operation |-> <<"sqrt", a.int>>]

factorial(a) ==
    IF IsList(a) THEN [error |-> "Factorial requires a non-negative integer"]
    ELSE IF a.int < 0 THEN [error |-> "Factorial requires a non-negative integer"]
    ELSE [result |-> Factorial(a.int), operation |-> <<a.int, "!">>]

gcd(a, b) ==
    IF IsNone(b) THEN [error |-> "GCD requires two operands"]
    ELSE IF IsList(a) THEN TypeError
    ELSE [result |-> Gcd(Abs(a.int), Abs(b.int)),
          operation |-> <<"gcd(", a.int, ", ", b.int, ")">>]

lcm(a, b) ==
    IF IsNone(b) THEN [error |-> "LCM requires two operands"]
    ELSE IF IsList(a) THEN TypeError
    ELSE [result |-> IF Gcd(Abs(a.int), Abs(b.int)) # 0
                     THEN Abs(a.int * b.int) \div Gcd(Abs(a.int), Abs(b.int))
                     ELSE 0,
          operation |-> <<"lcm(", a.int, ", ", b.int, ")">>]

mean(a) ==
    IF ~IsList(a) THEN [error |-> "Mean requires a list of numbers"]
    ELSE IF a.list = <<>> THEN [error |-> "Cannot calculate mean of empty list"]
    ELSE [result |-> Rat(Sum(a.list), Len(a.list)),
          count |-> Len(a.list), sum |-> Sum(a.list)]

MedianOf(sorted_list, n) ==
    IF n % 2 = 0
    THEN Rat(sorted_list[n \div 2] + sorted_list[n \div 2 + 1], 2)
    ELSE sorted_list[n \div 2 + 1]

median(a) ==
    IF ~IsList(a) THEN [error |-> "Median requires a list of numbers"]
    ELSE IF a.list = <<>> THEN [error |-> "Cannot calculate median of empty list"]
    ELSE [result |-> MedianOf(Sorted(a.list), Len(a.list)),
          count |-> Len(a.list), sorted |-> Sorted(a.list)]

Frequency(xs) ==
    [num \in Range(xs) |-> Cardinality({i \in DOMAIN xs : xs[i] = num})]

MaxFreq(frequency) ==
    CHOOSE f \in Range(frequency) : \A g \in Range(frequency) : g <= f

Modes(xs) ==
    SelectSeq(Dedupe(xs), LAMBDA num : Frequency(xs)[num] = MaxFreq(Frequency(xs)))

mode(a) ==
    IF ~IsList(a) THEN [error |-> "Mode requires a list of numbers"]
    ELSE IF a.list = <<>> THEN [error |-> "Cannot calculate mode of empty list"]
    ELSE [result |-> IF Len(Modes(a.list)) = 1 THEN Modes(a.list)[1] ELSE Modes(a.list),
          frequency |-> Frequency(a.list)]

RECURSIVE SumSquares(_, _)
SumSquares(xs, mean_val) ==
    IF xs = <<>> THEN Num(0)
    ELSE Add(Mul(Sub(Num(xs[1]), mean_val), Sub(Num(xs[1]), mean_val)),
             SumSquares(Tail(xs), mean_val))

VarianceOf(xs) ==
    Div(SumSquares(xs, Rat(Sum(xs), Len(xs))), Num(Len(xs) - 1))

variance(a) ==
    IF ~IsList(a) THEN [error |-> "Variance requires a list of numbers"]
    ELSE IF Len(a.list) < 2 THEN [error |-> "Variance requires at least 2 numbers"]
    ELSE [result |-> VarianceOf(a.list),
          mean |-> Rat(Sum(a.list), Len(a.list)), count |-> Len(a.list)]

stddev(a) ==
    IF ~IsList(a) THEN [error |-> "Standard deviation requires a list of numbers"]
    ELSE IF Len(a.list) < 2
         THEN [error |-> "Standard deviation requires at least 2 numbers"]
    ELSE [result |-> [sqrt |-> VarianceOf(a.list)],
          variance |-> VarianceOf(a.list), mean |-> Rat(Sum(a.list), Len(a.list))]

Factors(n) == {i \in 2..Isqrt(n) : n % i = 0}

prime_check(a) ==
    IF IsList(a) THEN TypeError
    ELSE IF a.int < 2 THEN [result |-> FALSE, number |-> a.int, reason |-> "Less than 2"]
    ELSE IF Factors(a.int) # {}
         THEN [result |-> FALSE, number |-> a.int,
               factor |-> CHOOSE i \in Factors(a.int) : \A j \in Factors(a.int) : i <= j]
    ELSE [result |-> TRUE, number |-> a.int]

\* for i in range(2, n): fib.append(fib[-1] + fib[-2])
RECURSIVE FibLoop(_, _, _)
FibLoop(fib, i, n) ==
    IF i >= n THEN fib
    ELSE FibLoop(Append(fib, fib[Len(fib)] + fib[Len(fib) - 1]), i + 1, n)

\* the branch, were its loop to run once more
fibonacciOneMore(a) ==
    IF IsList(a) THEN TypeError
    ELSE IF a.int < 0 THEN [error |-> "Fibonacci requires a non-negative integer"]
    ELSE IF a.int = 0 THEN [result |-> <<>>, count |-> 0]
    ELSE IF a.int = 1 THEN [result |-> <<0>>, count |-> 1]
    ELSE [result |-> FibLoop(<<0, 1>>, 2, a.int + 1), count |-> a.int,
          last |-> Last(FibLoop(<<0, 1>>, 2, a.int + 1))]

fibonacci(a) ==
    IF IsList(a) THEN TypeError
    ELSE IF a.int < 0 THEN [error |-> "Fibonacci requires a non-negative integer"]
    ELSE IF a.int = 0 THEN [result |-> <<>>, count |-> 0]
    ELSE IF a.int = 1 THEN [result |-> <<0>>, count |-> 1]
    ELSE [result |-> FibLoop(<<0, 1>>, 2, a.int), count |-> a.int,
          last |-> Last(FibLoop(<<0, 1>>, 2, a.int))]

\* the if chain of main
Branch(operation, a, b) ==
    CASE operation = "add" -> add(a, b)
      [] operation = "subtract" -> subtract(a, b)
      [] operation = "multiply" -> multiply(a, b)
      [] operation = "divide" -> divide(a, b)
      [] operation = "power" -> power(a, b)
      [] operation = "sqrt" -> sqrt(a)
      [] operation = "factorial" -> factorial(a)
      [] operation = "gcd" -> gcd(a, b)
      [] operation = "lcm" -> lcm(a, b)
      [] operation = "mean" -> mean(a)
      [] operation = "median" -> median(a)
      [] operation = "mode" -> mode(a)
      [] operation = "variance" -> variance(a)
      [] operation = "stddev" -> stddev(a)
      [] operation = "prime_check" -> prime_check(a)
      [] operation = "fibonacci" -> fibonacci(a)
      [] OTHER -> [error |-> <<"Unknown operation: ", operation>>, available |-> available]

\* main: what the chain raises is returned as an error (str(e) is the
\* exception's name here)
simple_math_main(operation, a, b) ==
    IF "raised" \in DOMAIN Branch(operation, a, b)
    THEN [error |-> Branch(operation, a, b).raised, operation |-> operation]
    ELSE Branch(operation, a, b)

Operations == Range(available) \cup {"frobnicate", "Add", ""}

Numbers == {IntOperand(n) : n \in (0 - MaxOperand)..MaxN}

Lists == {ListOperand(xs) : xs \in {<<>>, <<3>>, <<1, 2>>, <<2, 1, 2>>, <<4, 1, 1, 4>>}}

SecondOperands == {None} \cup {IntOperand(n) : n \in (0 - MaxOperand)..MaxOperand}

\* one call in a behaviour: main keeps nothing from one call to the next
SimpleMathCall ==
    /\ call = NoCall
    /\ \E operation \in Operations, a \in Numbers \cup Lists, b \in SecondOperands :
           Invoke("simple_math.main", <<operation, a, b>>, simple_math_main(operation, a, b))
    /\ UNCHANGED <<content, parserVars, pc>>

MathNext == SimpleMathCall

SpecMath == Init /\ [][MathNext]_vars

MathReturned == call.entry = "simple_math.main" /\ outcome = "returned"

\* the operation and the operands of the call
Operation == call.args[1]
FirstOperand == call.args[2]
SecondOperand == call.args[3]

\* the result is the mapping of the else branch
UnknownOperationResult ==
    /\ DOMAIN result = {"error", "available"}
    /\ result.available =
           <<"add", "subtract", "multiply", "divide", "power", "sqrt",
             "factorial", "gcd", "lcm", "mean", "median", "mode",
             "variance", "stddev", "prime_check", "fibonacci">>

\* C14: an operation the dispatcher has no handler for returns an error and
\* the list 'available', which holds exactly the names that have a handler; and
\* divide(a, 0) returns an error mapping, never a division fault.
C14_UnknownOperationAndDivideByZero ==
    MathReturned =>
        /\ ("available" \in DOMAIN result) => UnknownOperationResult
        /\ ("available" \in DOMAIN result) <=> (Operation \notin Range(available))
        /\ (Operation = "divide" /\ SecondOperand = IntOperand(0)) =>
               result = [error |-> "Division by zero is undefined"]

\* main('frobnicate', 1, 2)
C14_Witness ==
    /\ MathReturned
    /\ Operation = "frobnicate"
    /\ UnknownOperationResult
    /\ "error" \in DOMAIN result

\* main('divide', 5, 0)
C14_WitnessDivide ==
    /\ MathReturned
    /\ Operation = "divide" /\ FirstOperand = IntOperand(5) /\ SecondOperand = IntOperand(0)
    /\ result = [error |-> "Division by zero is undefined"]

\* xs is the first n Fibonacci numbers, from 0 and 1
IsFibonacciList(xs, n) ==
    /\ Len(xs) = n
    /\ n >= 1 => xs[1] = 0
    /\ n >= 2 => xs[2] = 1
    /\ \A i \in 3..n : xs[i] = xs[i - 1] + xs[i - 2]

FibonacciCalled == MathReturned /\ Operation = "fibonacci" /\ IsInt(FirstOperand)

\* C15: fibonacci(n) for n >= 0 is the list of the first n Fibonacci numbers
\* starting 0, 1, with count = n; for n < 0 an error mapping is returned.
C15_Fibonacci ==
    FibonacciCalled =>
        IF FirstOperand.int >= 0
        THEN /\ {"result", "count"} \subseteq DOMAIN result
             /\ "error" \notin DOMAIN result
             /\ IsFibonacciList(result.result, FirstOperand.int)
             /\ result.count = FirstOperand.int
        ELSE /\ "error" \in DOMAIN result
             /\ "result" \notin DOMAIN result

\* fibonacci(5) = [0, 1, 1, 2, 3]
C15_Witness ==
    /\ FibonacciCalled
    /\ FirstOperand = IntOperand(5)
    /\ result.result = <<0, 1, 1, 2, 3>>
    /\ result.count = 5

\* fibonacci(0), (1), (2) = [], [0], [0, 1]
C15_WitnessSmall ==
    /\ FibonacciCalled
    /\ FirstOperand.int \in 0..2
    /\ result.result = SubSeq(<<0, 1>>, 1, FirstOperand.int)

\* fibonacci(-1)
C15_WitnessNegative ==
    /\ FibonacciCalled
    /\ FirstOperand = IntOperand(-1)
    /\ result = [error |-> "Fibonacci requires a non-negative integer"]

-----------------------------------------------------------------------------
(* The tag scanner after an end tag *)

\* the token processed last is an end tag
EndTagProcessed == content # <<>> /\ Last(content).kind = "end"

NoCapture == current_tag = "None" /\ current_data = <<>>

\* every heading and every paragraph collected so far
Collected ==
    Range(paragraphs) \cup UNION {Range(headings[t]) : t \in HeadingTags}

\* C16: after any end tag, matching or not, no capture is active and the
\* accumulated text is empty; accumulated text is non-empty only while a
\* capture is active; every heading or paragraph collected is non-empty.
C16_EndTagResets ==
    /\ EndTagProcessed => NoCapture
    /\ current_data # <<>> => current_tag # "None"
    /\ <<>> \notin Collected

\* <p>a</h1>: an end tag that does not match the capture under way
C16_Witness ==
    /\ Len(content) = 3
    /\ content[1] = StartTok("p", NoAttrs)
    /\ content[2] = DataTok(<<"a", " ">>)
    /\ content[3] = EndTok("h1")
    /\ NoCapture
    /\ Collected = {}

\* <p>a</p>: the matching end tag collects the text and resets
C16_WitnessMatching ==
    /\ EndTagProcessed
    /\ paragraphs = << <<"a">> >>
    /\ NoCapture

====
